---------------------------- MODULE Spec2Model ----------------------------
(***************************************************************************)
(* A model of the caches and of the hybrid search of FlexiRAG:             *)
(*   QueryCache         (src/src/cache_manager.py)  exact-match, LRU + TTL *)
(*   SemanticCache      (src/src/semantic_cache.py) embedding similarity   *)
(*   HybridSearchEngine (src/src/hybrid_search.py)  RRF of two rankings    *)
(*                                                                         *)
(* Strings are sequences of one-character strings, so that the key         *)
(* construction of QueryCache._make_key (lower, strip, str, join) is       *)
(* computed character by character.  Python's None is the one-element      *)
(* sequence None, whose element is no character.                           *)
(***************************************************************************)
EXTENDS Integers, Sequences, FiniteSets, TLC

VARIABLES
    max_size,       \* QueryCache.max_size
    ttl_seconds,    \* QueryCache.ttl_seconds
    cache,          \* QueryCache.cache: the OrderedDict, oldest first
    hits,           \* QueryCache.hits
    misses,         \* QueryCache.misses
    evictions,      \* QueryCache.evictions
    now,            \* the clock read by time.time()
    recency,        \* history: the stored keys, least recently used first
    getCalls,       \* history: get calls since construction or the last clear
    lastOp,         \* history: the last call, its arguments and its result
    threads,        \* the requests running inside QueryCache.get / set
    similarity_threshold,   \* SemanticCache.similarity_threshold, a rational
    max_cache_size, \* SemanticCache.max_cache_size
    sc_cache,       \* SemanticCache.cache: the dict, in insertion order
    sc_file,        \* the file cache_file on disk
    sc_now,         \* the clock read by datetime.now()
    sc_last,        \* history: the last SemanticCache call and its result
    sc_lock,        \* SemanticCache.lock: 0 when free, else the holding request
    hs_last,        \* history: the last HybridSearchEngine call and its result
    rr_last,        \* history: the last rerank_chunks call and its result
    qa,             \* ask_question: its arguments, its locals and its position
    monitor,        \* the PerformanceMonitor singleton
    stores,         \* history: the cache stores made by ask_question
    collection,     \* the chunk ids stored in the ChromaDB collection
    hybrid_engine,  \* the API's global hybrid_engine: the ids its index was built from
    ask_engine,     \* ask_question._hybrid_engine: unset, or the ids of its index
    ix_last         \* history: the last retrieval or corpus change and its result

qcVars == <<max_size, ttl_seconds, cache, hits, misses, evictions, now,
            recency, getCalls, lastOp>>

scVars == <<similarity_threshold, max_cache_size, sc_cache, sc_file, sc_now,
            sc_last, sc_lock>>

ixVars == <<collection, hybrid_engine, ask_engine, ix_last>>

qaVars == <<qa, monitor, stores, ixVars>>

vars == <<qcVars, threads, scVars, hs_last, rr_last, qaVars>>

----------------------------------------------------------------------------
(* Bounds of the model *)

MaxCap == 2
MaxTtl == 1
MaxTime == 1
MaxGets == 2
MaxEvictions == 1
MaxScCap == 2
MaxClock == 2
MaxHits == 1
MaxLookupCap == 2
MaxLookupClock == 1
MaxFileCap == 2
MaxFileClock == 1

----------------------------------------------------------------------------
(* Strings *)

None == <<"<None>">>

\* str.lower() on one character
LowerChar(c) ==
    CASE c = "A" -> "a"
      [] c = "B" -> "b"
      [] c = "C" -> "c"
      [] c = "D" -> "d"
      [] c = "N" -> "n"
      [] c = "X" -> "x"
      [] OTHER -> c

\* str.lower()
Lower(s) == [i \in 1..Len(s) |-> LowerChar(s[i])]

IsSpace(c) == c \in {" ", "\t", "\n"}

\* str.strip(): drop the leading and the trailing whitespace
RECURSIVE LStrip(_)
LStrip(s) ==
    IF s # <<>> /\ IsSpace(Head(s)) THEN LStrip(Tail(s)) ELSE s

RECURSIVE RStrip(_)
RStrip(s) ==
    IF s # <<>> /\ IsSpace(s[Len(s)]) THEN RStrip(SubSeq(s, 1, Len(s) - 1)) ELSE s

Strip(s) == RStrip(LStrip(s))

Digit(d) == CASE d = 0 -> "0" [] d = 1 -> "1" [] d = 2 -> "2" [] d = 3 -> "3"
              [] d = 4 -> "4" [] d = 5 -> "5" [] d = 6 -> "6" [] d = 7 -> "7"
              [] d = 8 -> "8" [] d = 9 -> "9"

\* str(n) for a natural number
RECURSIVE StrInt(_)
StrInt(n) == IF n < 10 THEN <<Digit(n)>> ELSE StrInt(n \div 10) \o <<Digit(n % 10)>>

\* str(domain) for an Optional[str]
StrOpt(d) == IF d = None THEN <<"N", "o", "n", "e">> ELSE d

\* sep.join(parts)
RECURSIVE Join(_, _)
Join(parts, sep) ==
    IF parts = <<>> THEN <<>>
    ELSE IF Len(parts) = 1 THEN parts[1]
    ELSE parts[1] \o sep \o Join(Tail(parts), sep)

----------------------------------------------------------------------------
(* QueryCache *)

\* A call signature: (query, domain, method, n_results)
Sig(q, d, m, n) == [query |-> q, domain |-> d, method |-> m, n_results |-> n]

\* key_parts of _make_key
KeyParts(a) == <<Strip(Lower(a.query)), StrOpt(a.domain), a.method, StrInt(a.n_results)>>

\* _make_key: md5 is a fixed function of key_string; the model keeps key_string
\* itself (two signatures share a key exactly when their key strings are equal).
MakeKey(a) == Join(KeyParts(a), <<"|">>)

\* key in self.cache
HasKey(c, k) == \E i \in 1..Len(c) : c[i].key = k

IndexOf(c, k) == CHOOSE i \in 1..Len(c) : c[i].key = k

\* del self.cache[key]
Remove(c, k) ==
    LET i == IndexOf(c, k) IN SubSeq(c, 1, i - 1) \o SubSeq(c, i + 1, Len(c))

\* self.cache.move_to_end(key)
\* a slip: the move also gives the entry the time of the call
MoveToEndRestamp(c, k) == Remove(c, k) \o <<[c[IndexOf(c, k)] EXCEPT !.timestamp = now]>>

MoveToEnd(c, k) == Remove(c, k) \o <<c[IndexOf(c, k)]>>

\* self.cache[key] = (result, time.time()): an existing key keeps its place
Assign(c, k, e) ==
    IF HasKey(c, k) THEN [c EXCEPT ![IndexOf(c, k)] = e] ELSE Append(c, e)

\* a slip: popitem(last=True), which drops the newest entry
PopItemLast(c) == SubSeq(c, 1, Len(c) - 1)

\* self.cache.popitem(last=False)
PopItemFirst(c) == Tail(c)

\* a slip: <= for <, which keeps an entry alive at age ttl_seconds
FreshInclusive(timestamp) == now - timestamp <= ttl_seconds

\* time.time() - timestamp < self.ttl_seconds
Fresh(timestamp) == now - timestamp < ttl_seconds

\* a slip: > for >=, which evicts one insertion too late
MustEvictLate(c, k) == Len(c) > max_size /\ ~HasKey(c, k)

\* len(self.cache) >= self.max_size and key not in self.cache
MustEvict(c, k) == Len(c) >= max_size /\ ~HasKey(c, k)

\* history of recency: key k was used just now
Touch(r, k) == SelectSeq(r, LAMBDA x : x # k) \o <<k>>

Forget(r, k) == SelectSeq(r, LAMBDA x : x # k)

\* history: a step that is no get and no set
NoCall(name) == [op |-> name, sig |-> None, arg |-> None, ret |-> None, path |-> "none"]

\* QueryCache.get
Get(a) ==
    LET key == MakeKey(a) IN
    /\ hits + misses < MaxGets
    /\ IF HasKey(cache, key)
       THEN LET e == cache[IndexOf(cache, key)] IN
            IF Fresh(e.timestamp)
            THEN /\ cache' = MoveToEnd(cache, key)
                 /\ hits' = hits + 1
                 /\ misses' = misses
                 /\ recency' = Touch(recency, key)
                 /\ lastOp' = [op |-> "get", sig |-> a, arg |-> None, ret |-> e.data, path |-> "hit"]
            ELSE /\ cache' = Remove(cache, key)
                 /\ misses' = misses + 1
                 /\ hits' = hits
                 /\ recency' = Forget(recency, key)
                 /\ lastOp' = [op |-> "get", sig |-> a, arg |-> None, ret |-> None, path |-> "expired"]
       ELSE /\ misses' = misses + 1
            /\ UNCHANGED <<cache, hits, recency>>
            /\ lastOp' = [op |-> "get", sig |-> a, arg |-> None, ret |-> None, path |-> "absent"]
    /\ getCalls' = getCalls + 1
    /\ UNCHANGED <<max_size, ttl_seconds, evictions, now, threads>>

\* QueryCache.set
Set(a, result) ==
    LET key == MakeKey(a)
        evict == MustEvict(cache, key)
        c1 == IF evict THEN PopItemFirst(cache) ELSE cache
        r1 == IF evict THEN Forget(recency, cache[1].key) ELSE recency
        e == [key |-> key, data |-> result, timestamp |-> now, sig |-> a]
    IN
    /\ evict => evictions < MaxEvictions
    /\ cache' = MoveToEnd(Assign(c1, key, e), key)
    /\ evictions' = IF evict THEN evictions + 1 ELSE evictions
    /\ recency' = Touch(r1, key)
    /\ lastOp' = [op |-> "set", sig |-> a, arg |-> result, ret |-> None,
                  path |-> IF evict THEN "evict" ELSE "keep"]
    /\ UNCHANGED <<max_size, ttl_seconds, hits, misses, now, getCalls, threads>>

\* a slip: clear that forgets to reset the counters
ClearKeepsStats ==
    /\ cache' = <<>>
    /\ recency' = <<>>
    /\ getCalls' = 0
    /\ lastOp' = NoCall("clear")
    /\ UNCHANGED <<max_size, ttl_seconds, now, threads, hits, misses, evictions>>

\* QueryCache.clear
Clear ==
    /\ cache' = <<>>
    /\ hits' = 0
    /\ misses' = 0
    /\ evictions' = 0
    /\ recency' = <<>>
    /\ getCalls' = 0
    /\ lastOp' = NoCall("clear")
    /\ UNCHANGED <<max_size, ttl_seconds, now, threads>>

\* QueryCache.get_stats
GetStats ==
    [size |-> Len(cache), max_size |-> max_size, hits |-> hits, misses |-> misses,
     evictions |-> evictions, total_requests |-> hits + misses,
     ttl_seconds |-> ttl_seconds]

\* the clock advances between calls
Tick ==
    /\ now < MaxTime
    /\ now' = now + 1
    /\ lastOp' = NoCall("tick")
    /\ UNCHANGED <<max_size, ttl_seconds, cache, hits, misses, evictions,
                   recency, getCalls, threads>>

\* QueryCache.__init__
InitQC ==
    /\ max_size \in 1..MaxCap
    /\ ttl_seconds \in 1..MaxTtl
    /\ cache = <<>>
    /\ hits = 0
    /\ misses = 0
    /\ evictions = 0
    /\ now = 0
    /\ recency = <<>>
    /\ getCalls = 0
    /\ lastOp = NoCall("init")

\* no SemanticCache is in use
\* what a call gave back: Python's None, a value, or a raised exception
PyNone == [kind |-> "None"]
Returned(v) == [kind |-> "value", value |-> v]
Raised(e) == [kind |-> "raise", value |-> e]

\* no HybridSearchEngine is in use
NoHybridSearch == hs_last = [op |-> "init"]

\* rerank_chunks has not been called
NoReranker == rr_last = [op |-> "init"]

\* PerformanceMonitor.__init__
NewMonitor ==
    [queries_count |-> 0, total_time |-> 0, search_time |-> 0, rerank_time |-> 0,
     generation_time |-> 0]

\* the API has not started: no collection is loaded and no engine is built
NoIndex ==
    /\ collection = {}
    /\ hybrid_engine = [built |-> FALSE, all_ids |-> {}]
    /\ ask_engine = [built |-> FALSE, all_ids |-> {}]
    /\ ix_last = [op |-> "init"]

\* ask_question has not been called
NoPipeline ==
    /\ qa = [pc |-> "none"]
    /\ monitor = NewMonitor
    /\ stores = <<>>
    /\ NoIndex

NoSemanticCache ==
    /\ similarity_threshold = [num |-> 1, den |-> 1]
    /\ max_cache_size = 1
    /\ sc_cache = <<>>
    /\ sc_file = [state |-> "absent", data |-> <<>>]
    /\ sc_now = 0
    /\ sc_last = [op |-> "init", outcome |-> "none", match |-> -1, evicted |-> <<>>,
                  ret |-> PyNone]
    /\ sc_lock = 0
    /\ NoHybridSearch
    /\ NoReranker
    /\ NoPipeline

\* The calls of the eviction scenarios: three queries, default domain, method, n
Hybrid == <<"h", "y", "b", "r", "i", "d">>
Bm25 == <<"b", "m", "2", "5">>

SigsLRU == {Sig(q, None, Hybrid, 3) : q \in {<<"a">>, <<"b">>, <<"c">>}}

Results == {<<"r", "1">>, <<"r", "2">>}

Init ==
    /\ InitQC
    /\ threads = <<>>
    /\ NoSemanticCache

Next ==
    \/ \E a \in SigsLRU : Get(a) /\ UNCHANGED <<scVars, hs_last, rr_last, qaVars>>
    \/ \E a \in SigsLRU, r \in Results : Set(a, r) /\ UNCHANGED <<scVars, hs_last, rr_last, qaVars>>
    \/ Clear /\ UNCHANGED <<scVars, hs_last, rr_last, qaVars>>
    \/ Tick /\ UNCHANGED <<scVars, hs_last, rr_last, qaVars>>

Spec == Init /\ [][Next]_vars

\* The calls of the lookup scenarios: one signature and the signatures that
\* differ from it in the query's case and whitespace, in the domain, in the
\* method or in n_results; a domain may be any text, 'None' and text with a
\* '|' included.
BaseSig == Sig(<<"a">>, None, Hybrid, 3)

SigsKey ==
    { BaseSig,
      [BaseSig EXCEPT !.query = <<" ", "A", " ">>],
      [BaseSig EXCEPT !.domain = <<"x">>],
      [BaseSig EXCEPT !.domain = <<"N", "o", "n", "e">>],
      [BaseSig EXCEPT !.method = Bm25],
      [BaseSig EXCEPT !.n_results = 1],
      [BaseSig EXCEPT !.query = <<"a", "|", "x">>],
      [BaseSig EXCEPT !.domain = <<"x", "|", "N", "o", "n", "e">>] }

NextKey ==
    \/ \E a \in SigsKey : Get(a) /\ UNCHANGED <<scVars, hs_last, rr_last, qaVars>>
    \/ \E a \in SigsKey, r \in Results : Set(a, r) /\ UNCHANGED <<scVars, hs_last, rr_last, qaVars>>

SpecKey == Init /\ [][NextKey]_vars

----------------------------------------------------------------------------
(* QueryCache called by concurrent requests.  The class holds no lock, so a  *)
(* call is a sequence of steps on the shared OrderedDict and other requests  *)
(* may run between them.  A step is one statement of get or set; the key     *)
(* lookups of one statement are taken together.                              *)

NThreads == 2
MaxCalls == 2

Threads == 1..NThreads

Idle(n) == [pc |-> "idle", key |-> None, sig |-> None, data |-> None,
            timestamp |-> 0, calls |-> n]

\* a request enters QueryCache.get: key = self._make_key(...)
TCallGet(t, a) ==
    /\ threads[t].pc = "idle" /\ threads[t].calls < MaxCalls
    /\ threads' = [threads EXCEPT ![t] =
          [pc |-> "get_check", key |-> MakeKey(a), sig |-> a, data |-> None,
           timestamp |-> 0, calls |-> @.calls + 1]]
    /\ UNCHANGED qcVars

\* if key in self.cache:
TGetCheck(t) ==
    /\ threads[t].pc = "get_check"
    /\ threads' = [threads EXCEPT ![t].pc =
          IF HasKey(cache, threads[t].key) THEN "get_read" ELSE "get_miss"]
    /\ UNCHANGED qcVars

\* cached_data, timestamp = self.cache[key]; if time.time() - timestamp < ttl
TGetRead(t) ==
    /\ threads[t].pc = "get_read"
    /\ IF HasKey(cache, threads[t].key)
       THEN LET e == cache[IndexOf(cache, threads[t].key)] IN
            threads' = [threads EXCEPT
                ![t].pc = IF Fresh(e.timestamp) THEN "get_move" ELSE "get_del",
                ![t].data = e.data,
                ![t].timestamp = e.timestamp]
       ELSE threads' = [threads EXCEPT ![t].pc = "KeyError"]
    /\ UNCHANGED qcVars

\* self.cache.move_to_end(key); self.hits += 1; return cached_data
TGetMove(t) ==
    /\ threads[t].pc = "get_move"
    /\ IF HasKey(cache, threads[t].key)
       THEN /\ cache' = MoveToEnd(cache, threads[t].key)
            /\ hits' = hits + 1
            /\ threads' = [threads EXCEPT ![t] = Idle(@.calls)]
       ELSE /\ threads' = [threads EXCEPT ![t].pc = "KeyError"]
            /\ UNCHANGED <<cache, hits>>
    /\ UNCHANGED <<max_size, ttl_seconds, misses, evictions, now, recency,
                   getCalls, lastOp>>

\* del self.cache[key]
TGetDel(t) ==
    /\ threads[t].pc = "get_del"
    /\ IF HasKey(cache, threads[t].key)
       THEN /\ cache' = Remove(cache, threads[t].key)
            /\ threads' = [threads EXCEPT ![t].pc = "get_miss"]
       ELSE /\ threads' = [threads EXCEPT ![t].pc = "KeyError"]
            /\ UNCHANGED cache
    /\ UNCHANGED <<max_size, ttl_seconds, hits, misses, evictions, now,
                   recency, getCalls, lastOp>>

\* self.misses += 1; return None
TGetMiss(t) ==
    /\ threads[t].pc = "get_miss"
    /\ misses' = misses + 1
    /\ threads' = [threads EXCEPT ![t] = Idle(@.calls)]
    /\ UNCHANGED <<max_size, ttl_seconds, cache, hits, evictions, now,
                   recency, getCalls, lastOp>>

\* a request enters QueryCache.set: key = self._make_key(...)
TCallSet(t, a, result) ==
    /\ threads[t].pc = "idle" /\ threads[t].calls < MaxCalls
    /\ threads' = [threads EXCEPT ![t] =
          [pc |-> "set_check", key |-> MakeKey(a), sig |-> a, data |-> result,
           timestamp |-> 0, calls |-> @.calls + 1]]
    /\ UNCHANGED qcVars

\* if len(self.cache) >= self.max_size and key not in self.cache:
TSetCheck(t) ==
    /\ threads[t].pc = "set_check"
    /\ threads' = [threads EXCEPT ![t].pc =
          IF MustEvict(cache, threads[t].key) THEN "set_pop" ELSE "set_store"]
    /\ UNCHANGED qcVars

\* self.cache.popitem(last=False); self.evictions += 1
TSetPop(t) ==
    /\ threads[t].pc = "set_pop"
    /\ IF cache # <<>>
       THEN /\ cache' = PopItemFirst(cache)
            /\ evictions' = evictions + 1
            /\ threads' = [threads EXCEPT ![t].pc = "set_store"]
       ELSE /\ threads' = [threads EXCEPT ![t].pc = "KeyError"]
            /\ UNCHANGED <<cache, evictions>>
    /\ UNCHANGED <<max_size, ttl_seconds, hits, misses, now, recency,
                   getCalls, lastOp>>

\* self.cache[key] = (result, time.time())
TSetStore(t) ==
    /\ threads[t].pc = "set_store"
    /\ cache' = Assign(cache, threads[t].key,
                       [key |-> threads[t].key, data |-> threads[t].data,
                        timestamp |-> now, sig |-> threads[t].sig])
    /\ threads' = [threads EXCEPT ![t].pc = "set_move"]
    /\ UNCHANGED <<max_size, ttl_seconds, hits, misses, evictions, now,
                   recency, getCalls, lastOp>>

\* self.cache.move_to_end(key)
TSetMove(t) ==
    /\ threads[t].pc = "set_move"
    /\ IF HasKey(cache, threads[t].key)
       THEN /\ cache' = MoveToEnd(cache, threads[t].key)
            /\ threads' = [threads EXCEPT ![t] = Idle(@.calls)]
       ELSE /\ threads' = [threads EXCEPT ![t].pc = "KeyError"]
            /\ UNCHANGED cache
    /\ UNCHANGED <<max_size, ttl_seconds, hits, misses, evictions, now,
                   recency, getCalls, lastOp>>

\* the clock advances while requests run
TTick ==
    /\ now < MaxTime
    /\ now' = now + 1
    /\ UNCHANGED <<max_size, ttl_seconds, cache, hits, misses, evictions,
                   recency, getCalls, lastOp, threads>>

SigsConc == {Sig(q, None, Hybrid, 3) : q \in {<<"a">>, <<"b">>}}

\* get_query_cache: one QueryCache shared by every request
InitConc ==
    /\ InitQC
    /\ threads = [t \in Threads |-> Idle(0)]
    /\ NoSemanticCache

NextConc ==
    \/ \E t \in Threads, a \in SigsConc : TCallGet(t, a) /\ UNCHANGED <<scVars, hs_last, rr_last, qaVars>>
    \/ \E t \in Threads : TGetCheck(t) /\ UNCHANGED <<scVars, hs_last, rr_last, qaVars>>
    \/ \E t \in Threads : TGetRead(t) /\ UNCHANGED <<scVars, hs_last, rr_last, qaVars>>
    \/ \E t \in Threads : TGetMove(t) /\ UNCHANGED <<scVars, hs_last, rr_last, qaVars>>
    \/ \E t \in Threads : TGetDel(t) /\ UNCHANGED <<scVars, hs_last, rr_last, qaVars>>
    \/ \E t \in Threads : TGetMiss(t) /\ UNCHANGED <<scVars, hs_last, rr_last, qaVars>>
    \/ \E t \in Threads, a \in SigsConc : TCallSet(t, a, <<"r", "1">>) /\ UNCHANGED <<scVars, hs_last, rr_last, qaVars>>
    \/ \E t \in Threads : TSetCheck(t) /\ UNCHANGED <<scVars, hs_last, rr_last, qaVars>>
    \/ \E t \in Threads : TSetPop(t) /\ UNCHANGED <<scVars, hs_last, rr_last, qaVars>>
    \/ \E t \in Threads : TSetStore(t) /\ UNCHANGED <<scVars, hs_last, rr_last, qaVars>>
    \/ \E t \in Threads : TSetMove(t) /\ UNCHANGED <<scVars, hs_last, rr_last, qaVars>>
    \/ TTick /\ UNCHANGED <<scVars, hs_last, rr_last, qaVars>>

SpecConc == InitConc /\ [][NextConc]_vars

----------------------------------------------------------------------------
(* Claims about QueryCache *)

KeysOf(c) == {c[i].key : i \in 1..Len(c)}

EntryOf(c, k) == c[IndexOf(c, k)]

\* the entries stored under the keys ks are the same in c and d
SameEntries(c, d, ks) ==
    \A k \in ks : HasKey(c, k) /\ HasKey(d, k) /\ EntryOf(c, k) = EntryOf(d, k)

\* C1: the number of stored entries never exceeds max_size (max_size >= 1).
C1_SizeBound == Len(cache) <= max_size

C1_Witness ==
    /\ lastOp.op = "set" /\ lastOp.path = "evict"
    /\ Len(cache) = max_size

\* C2: set removes an entry iff its key is absent and the cache holds max_size
\* entries; it then removes exactly the least recently used entry (recency is
\* advanced by every get hit and every set) and adds one to the eviction
\* counter; all other entries remain.  A set on a present key replaces the
\* value, keeps the size and evicts nothing.
C2_SetStep ==
    LET k == MakeKey(lastOp'.sig)
        full == ~HasKey(cache, k) /\ Len(cache) = max_size
        gone == KeysOf(cache) \ KeysOf(cache')
    IN
    lastOp'.op = "set" =>
        /\ HasKey(cache', k) /\ EntryOf(cache', k).data = lastOp'.arg
        /\ KeysOf(cache') \ KeysOf(cache) \subseteq {k}
        /\ SameEntries(cache, cache', KeysOf(cache) \ (gone \cup {k}))
        /\ IF full
           THEN /\ gone = {recency[1]}
                /\ evictions' = evictions + 1
                /\ Len(cache') = Len(cache)
           ELSE /\ gone = {}
                /\ evictions' = evictions
        /\ HasKey(cache, k) => Len(cache') = Len(cache)

C2_EvictionRule == [][C2_SetStep]_vars

\* set a, set b, get a, set c at size 2 leaves exactly a and c
C2_Witness ==
    /\ max_size = 2 /\ lastOp.op = "set" /\ lastOp.path = "evict"
    /\ hits = 1 /\ evictions = 1
    /\ KeysOf(cache) = {MakeKey(Sig(<<"a">>, None, Hybrid, 3)),
                        MakeKey(Sig(<<"c">>, None, Hybrid, 3))}
    /\ cache[1].key = MakeKey(Sig(<<"a">>, None, Hybrid, 3))

\* C4: a get on a present entry of age >= ttl_seconds returns None, counts a
\* miss and removes the entry in that call; at age < ttl_seconds it is a hit.
\* No other operation removes an entry for its age: a get removes no other key,
\* the passing of time removes nothing, and a set removes only at capacity.
C4_Step ==
    LET k == MakeKey(lastOp'.sig)
        gone == KeysOf(cache) \ KeysOf(cache')
    IN
    /\ (lastOp'.op = "get" /\ HasKey(cache, k)) =>
          IF now - EntryOf(cache, k).timestamp >= ttl_seconds
          THEN /\ lastOp'.ret = None
               /\ misses' = misses + 1 /\ hits' = hits
               /\ ~HasKey(cache', k)
          ELSE /\ lastOp'.ret = EntryOf(cache, k).data
               /\ hits' = hits + 1 /\ misses' = misses
               /\ HasKey(cache', k)
    /\ lastOp'.op = "get" => gone \subseteq {k}
    /\ lastOp'.op = "tick" => cache' = cache
    /\ lastOp'.op = "set" =>
          (gone # {} => Len(cache) = max_size /\ ~HasKey(cache, k))

C4_LazyTtl == [][C4_Step]_vars

C4_Witness ==
    /\ lastOp.op = "get" /\ lastOp.path = "expired"
    /\ ~HasKey(cache, MakeKey(lastOp.sig))
    /\ misses >= 1

\* C5: every get adds one to exactly one of hits and misses, set changes
\* neither, clear empties the cache and resets hits, misses and evictions;
\* hits + misses is the number of get calls since construction or the last
\* clear, and the reported size is the number of stored entries.
C5_Step ==
    /\ lastOp'.op = "get" =>
          \/ hits' = hits + 1 /\ misses' = misses
          \/ hits' = hits /\ misses' = misses + 1
    /\ lastOp'.op = "set" => hits' = hits /\ misses' = misses
    /\ lastOp'.op = "clear" =>
          cache' = <<>> /\ hits' = 0 /\ misses' = 0 /\ evictions' = 0

C5_Statistics ==
    /\ [](GetStats.hits + GetStats.misses = getCalls /\ GetStats.size = Len(cache))
    /\ [][C5_Step]_vars

C5_Witness ==
    /\ lastOp.op = "get" /\ hits = 1 /\ misses = 1 /\ Len(cache) = 1

\* two signatures are the same request: the queries differ at most in letter
\* case and surrounding whitespace, domain, method and n_results are equal
SameSig(a, b) ==
    /\ Strip(Lower(a.query)) = Strip(Lower(b.query))
    /\ a.domain = b.domain
    /\ a.method = b.method
    /\ a.n_results = b.n_results

\* C3: a get returns the value of the unexpired entry that was set under the
\* same signature, and a get whose signature differs in n_results, in domain
\* or in method from the signature every stored entry was set under is a miss
\* and returns None.
C3_Step ==
    lastOp'.op = "get" =>
        /\ \A i \in 1..Len(cache) :
              (SameSig(cache[i].sig, lastOp'.sig) /\ Fresh(cache[i].timestamp))
                  => lastOp'.ret = cache[i].data
        /\ (\A i \in 1..Len(cache) : ~SameSig(cache[i].sig, lastOp'.sig))
              => lastOp'.ret = None

C3_Lookup == [][C3_Step]_vars

\* C6: under every interleaving of concurrent get and set calls the size never
\* exceeds max_size and no call fails on an entry that another request removed
\* between the call's presence check and its use of the entry.
C6_Atomic ==
    /\ Len(cache) <= max_size
    /\ \A t \in DOMAIN threads : threads[t].pc # "KeyError"

----------------------------------------------------------------------------
(* SemanticCache *)

\* Similarities and thresholds are exact rationals num/den with den > 0.
Rat(n, d) == [num |-> n, den |-> d]

RatGT(a, b) == a.num * b.den > b.num * a.den

RatGE(a, b) == a.num * b.den >= b.num * a.den

\* np.dot(vec1, vec2)
RECURSIVE Dot(_, _)
RECURSIVE SumAbs(_)
Dot(v, w) == IF v = <<>> THEN 0 ELSE Head(v) * Head(w) + Dot(Tail(v), Tail(w))

\* |v1| + ... + |vn|, which the norm does not exceed
SumAbs(v) ==
    IF v = <<>> THEN 0
    ELSE (IF Head(v) < 0 THEN -Head(v) ELSE Head(v)) + SumAbs(Tail(v))

\* np.linalg.norm(vec); the embeddings of the model have whole norms
Norm(v) == LET sq == Dot(v, v) IN CHOOSE r \in 0..SumAbs(v) : r * r = sq

\* SemanticCache._cosine_similarity
CosineSimilarity(vec1, vec2) ==
    LET dot_product == Dot(vec1, vec2)
        norm1 == Norm(vec1)
        norm2 == Norm(vec2)
    IN IF norm1 = 0 \/ norm2 = 0 THEN Rat(0, 1)
       ELSE Rat(dot_product, norm1 * norm2)

\* "if domain": an Optional[str] that is neither None nor empty
Truthy(d) == d # None /\ d # <<>>

\* best_match = None
NoMatch == -1

\* a slip: the domain filter dropped from the scan
AdmittedAll(entry, domain) == TRUE

\* not (domain and entry.get('domain') != domain)
Admitted(entry, domain) == ~(Truthy(domain) /\ entry.domain # domain)

\* a slip: >= for >, which prefers the last of equally similar entries and
\* accepts a similarity of 0
BetterOrEqual(similarity, best_similarity) == RatGE(similarity, best_similarity)

\* similarity > best_similarity
Better(similarity, best_similarity) == RatGT(similarity, best_similarity)

\* a slip: > for >=, which misses at a similarity equal to the threshold
AboveThresholdStrict(best_similarity) == RatGT(best_similarity, similarity_threshold)

\* best_similarity >= self.similarity_threshold
AboveThreshold(best_similarity) == RatGE(best_similarity, similarity_threshold)

\* the loop of _find_similar_query over self.cache.items()
RECURSIVE FindLoop(_, _, _, _, _, _)
FindLoop(c, i, query_embedding, domain, best_match, best_similarity) ==
    IF i > Len(c) THEN [match |-> best_match, sim |-> best_similarity]
    ELSE IF ~Admitted(c[i], domain)
         THEN FindLoop(c, i + 1, query_embedding, domain, best_match, best_similarity)
    ELSE LET similarity == CosineSimilarity(query_embedding, c[i].query_embedding) IN
         IF Better(similarity, best_similarity)
         THEN FindLoop(c, i + 1, query_embedding, domain, c[i].cache_id, similarity)
         ELSE FindLoop(c, i + 1, query_embedding, domain, best_match, best_similarity)

\* SemanticCache._find_similar_query: found is "the result is not None"
FindSimilarQuery(c, query_embedding, domain) ==
    LET r == FindLoop(c, 1, query_embedding, domain, NoMatch, Rat(0, 1)) IN
    [found |-> AboveThreshold(r.sim), match |-> r.match, sim |-> r.sim]

\* cache_id in self.cache
ScHas(c, id) == \E i \in 1..Len(c) : c[i].cache_id = id

ScIndex(c, id) == CHOOSE i \in 1..Len(c) : c[i].cache_id = id

\* self.cache[cache_id] = entry: a present id keeps its place in the dict
ScAssign(c, id, e) ==
    IF ScHas(c, id) THEN [c EXCEPT ![ScIndex(c, id)] = e] ELSE Append(c, e)

\* del self.cache[oldest_id]
ScRemoveAt(c, i) == SubSeq(c, 1, i - 1) \o SubSeq(c, i + 1, Len(c))

\* a slip: the oldest by created_at, which is eviction by insertion time
OldestCreated(c) ==
    CHOOSE i \in 1..Len(c) :
        /\ \A j \in 1..Len(c) : c[i].created_at <= c[j].created_at
        /\ \A j \in 1..(i - 1) : c[j].created_at > c[i].created_at

\* min(self.cache.keys(), key=last_accessed): the first of the minimal ones
OldestIndex(c) ==
    CHOOSE i \in 1..Len(c) :
        /\ \A j \in 1..Len(c) : c[i].last_accessed <= c[j].last_accessed
        /\ \A j \in 1..(i - 1) : c[j].last_accessed > c[i].last_accessed

\* SemanticCache._evict_oldest
EvictOldest(c) == IF c = <<>> THEN c ELSE ScRemoveAt(c, OldestIndex(c))

\* a slip: > for >=, which evicts one insertion too late
AtCapacityLate(c) == Len(c) > max_cache_size

\* len(self.cache) >= self.max_cache_size
AtCapacity(c) == Len(c) >= max_cache_size

\* the embedding fields of the file: embedding.tolist() on save, np.array on load
ToList(embedding) == [present |-> TRUE, list |-> embedding]

NpArray(x) == x.list

\* an entry of the file without its 'query_embedding'
Missing == [present |-> FALSE, list |-> <<>>]

\* serializable_cache of _save_cache
Serializable(c) ==
    [i \in 1..Len(c) |-> [c[i] EXCEPT !.query_embedding = ToList(@)]]

\* the loop of _load_cache: an entry without 'query_embedding' raises KeyError
RECURSIVE LoadLoop(_, _, _)
LoadLoop(data, i, acc) ==
    IF i > Len(data) THEN [raised |-> FALSE, cache |-> acc]
    ELSE IF ~data[i].query_embedding.present THEN [raised |-> TRUE, cache |-> acc]
    ELSE LoadLoop(data, i + 1,
                  ScAssign(acc, data[i].cache_id,
                           [data[i] EXCEPT !.query_embedding = NpArray(@)]))

\* a _load_cache that keeps the entries loaded before the failure
LoadCachePartial(file) ==
    IF file.state = "absent" THEN <<>>
    ELSE IF file.state = "corrupt" THEN <<>>
    ELSE LoadLoop(file.data, 1, <<>>).cache

\* SemanticCache._load_cache
LoadCache(file) ==
    IF file.state = "absent" THEN <<>>
    ELSE IF file.state = "corrupt" THEN <<>>
    ELSE LET r == LoadLoop(file.data, 1, <<>>) IN
         IF r.raised THEN <<>> ELSE r.cache

\* SemanticCache._save_cache
SaveCache(c) == [state |-> "ok", data |-> Serializable(c)]

\* history: a step that is no get and no set
ScNoCall(name) ==
    [op |-> name, outcome |-> "none", match |-> NoMatch, evicted |-> <<>>,
     ret |-> PyNone]

\* SemanticCache.__init__ on the file left by an earlier instance
ScNew(threshold, max) ==
    /\ similarity_threshold' = threshold
    /\ max_cache_size' = max
    /\ sc_cache' = LoadCache(sc_file)
    /\ sc_last' = ScNoCall("new")
    /\ UNCHANGED <<sc_file, sc_now>>

\* the dict SemanticCache.get returns on a hit
GetReturn(cached_entry, similarity) ==
    [answer |-> cached_entry.answer,
     sources |-> cached_entry.sources,
     metadata |-> [cache_hit |-> TRUE,
                   cache_similarity |-> similarity,
                   cached_query |-> cached_entry.query_text]
                  @@ cached_entry.metadata]

\* how SemanticCache.get ends on the cache c: "hit" on entry match, "miss"
\* (it returns None) or "KeyError" (self.cache[None] raises)
GetOutcome(c, query_embedding, domain) ==
    LET result == FindSimilarQuery(c, query_embedding, domain) IN
    IF ~result.found
    THEN [outcome |-> "miss", match |-> NoMatch, ret |-> PyNone]
    ELSE IF ~ScHas(c, result.match)
    THEN [outcome |-> "KeyError", match |-> NoMatch, ret |-> Raised("KeyError")]
    ELSE [outcome |-> "hit", match |-> result.match,
          ret |-> Returned(GetReturn(c[ScIndex(c, result.match)], result.sim))]

\* SemanticCache.get; the query text is only printed
ScGet(query, query_embedding, domain) ==
    LET o == GetOutcome(sc_cache, query_embedding, domain) IN
    /\ IF o.outcome = "hit"
       THEN LET i == ScIndex(sc_cache, o.match) IN
            /\ sc_cache[i].hit_count < MaxHits
            /\ sc_cache' = [sc_cache EXCEPT
                   ![i].hit_count = @ + 1,
                   ![i].last_accessed = sc_now]
       ELSE sc_cache' = sc_cache
    /\ sc_last' = [op |-> "get", outcome |-> o.outcome, match |-> o.match,
                   evicted |-> <<>>, ret |-> o.ret]
    /\ UNCHANGED <<similarity_threshold, max_cache_size, sc_file, sc_now>>

\* SemanticCache.set; cache_id is the clock reading to the microsecond
ScSet(query, query_embedding, payload, domain) ==
    LET evict == AtCapacity(sc_cache)
        c1 == IF evict THEN EvictOldest(sc_cache) ELSE sc_cache
        cache_id == sc_now
        entry == [cache_id |-> cache_id, query_text |-> query,
                  query_embedding |-> query_embedding, answer |-> payload.answer,
                  sources |-> payload.sources, domain |-> domain,
                  metadata |-> payload.metadata, created_at |-> sc_now,
                  last_accessed |-> sc_now, hit_count |-> 0]
        c2 == ScAssign(c1, cache_id, entry)
    IN
    /\ sc_cache' = c2
    /\ sc_file' = SaveCache(c2)
    /\ sc_last' = [op |-> "set", outcome |-> "stored", match |-> cache_id,
                   evicted |-> IF evict /\ sc_cache # <<>>
                               THEN <<sc_cache[OldestIndex(sc_cache)].cache_id>>
                               ELSE <<>>,
                   ret |-> PyNone]
    /\ UNCHANGED <<similarity_threshold, max_cache_size, sc_now>>

\* SemanticCache.clear
ScClear ==
    /\ sc_cache' = <<>>
    /\ sc_file' = SaveCache(<<>>)
    /\ sc_last' = ScNoCall("clear")
    /\ UNCHANGED <<similarity_threshold, max_cache_size, sc_now>>

\* the clock advances between calls
ScTick(horizon) ==
    /\ sc_now < horizon
    /\ sc_now' = sc_now + 1
    /\ sc_last' = ScNoCall("tick")
    /\ UNCHANGED <<similarity_threshold, max_cache_size, sc_cache, sc_file>>

\* the file is damaged on disk: no longer JSON
ScCorruptFile ==
    /\ sc_file.state = "ok"
    /\ sc_file' = [state |-> "corrupt", data |-> <<>>]
    /\ sc_last' = ScNoCall("damage")
    /\ UNCHANGED <<similarity_threshold, max_cache_size, sc_cache, sc_now>>

\* the file is damaged on disk: an entry loses its 'query_embedding'
ScDropEmbedding(i) ==
    /\ sc_file.state = "ok"
    /\ i \in 1..Len(sc_file.data)
    /\ sc_file.data[i].query_embedding.present
    /\ sc_file' = [sc_file EXCEPT !.data[i].query_embedding = Missing]
    /\ sc_last' = ScNoCall("damage")
    /\ UNCHANGED <<similarity_threshold, max_cache_size, sc_cache, sc_now>>

Thresholds == {Rat(0, 1), Rat(4, 5)}

\* embeddings with whole norms: cos(<<1,0>>, <<4,3>>) = 4/5, cos(<<0,1>>, <<4,3>>) = 3/5
Embeddings == {<<1, 0>>, <<0, 1>>, <<4, 3>>, <<0, 0>>}

\* domain names are compared whole
Automotive == <<"automotive">>
Fashion == <<"fashion">>

Domains == {None, Automotive, Fashion}

Payloads == {[answer |-> <<"A", "1">>, sources |-> <<"S", "1">>,
              metadata |-> [model |-> <<"M", "1">>]]}

\* no QueryCache is in use
NoQueryCache ==
    /\ max_size = 1
    /\ ttl_seconds = 1
    /\ cache = <<>>
    /\ hits = 0
    /\ misses = 0
    /\ evictions = 0
    /\ now = 0
    /\ recency = <<>>
    /\ getCalls = 0
    /\ lastOp = NoCall("init")
    /\ threads = <<>>

\* SemanticCache.__init__ with no file on disk
ScInit(thresholds, caps) ==
    /\ NoQueryCache
    /\ similarity_threshold \in thresholds
    /\ max_cache_size \in caps
    /\ sc_file = [state |-> "absent", data |-> <<>>]
    /\ sc_cache = LoadCache(sc_file)
    /\ sc_now = 0
    /\ sc_last = ScNoCall("init")
    /\ sc_lock = 0
    /\ NoHybridSearch
    /\ NoReranker
    /\ NoPipeline

\* The lookup scenarios: one SemanticCache, stored and queried with embeddings
\* of several similarities and with several domains.
\* what the lookup scenarios store
LookupEntries ==
    {[embedding |-> <<1, 0>>, domain |-> Automotive],
     [embedding |-> <<4, 3>>, domain |-> Automotive],
     [embedding |-> <<4, 3>>, domain |-> None]}

InitSC == ScInit(Thresholds, {MaxLookupCap})

NextSC ==
    \/ \E e \in Embeddings, d \in Domains :
          ScGet(<<"q", "2">>, e, d) /\ UNCHANGED <<qcVars, threads, sc_lock, hs_last, rr_last, qaVars>>
    \/ \E x \in LookupEntries, p \in Payloads :
          ScSet(<<"q", "1">>, x.embedding, p, x.domain)
             /\ UNCHANGED <<qcVars, threads, sc_lock, hs_last, rr_last, qaVars>>
    \/ ScClear /\ UNCHANGED <<qcVars, threads, sc_lock, hs_last, rr_last, qaVars>>
    \/ ScTick(MaxLookupClock) /\ UNCHANGED <<qcVars, threads, sc_lock, hs_last, rr_last, qaVars>>

SpecSC == InitSC /\ [][NextSC]_vars

\* The eviction scenarios: entries told apart by orthogonal embeddings, at the
\* default threshold.
InitSCLru == ScInit({Rat(17, 20)}, 1..MaxScCap)

NextSCLru ==
    \/ \E e \in {<<1, 0>>, <<0, 1>>} :
          ScGet(<<"q", "2">>, e, None) /\ UNCHANGED <<qcVars, threads, sc_lock, hs_last, rr_last, qaVars>>
    \/ \E e \in {<<1, 0>>, <<0, 1>>}, p \in Payloads :
          ScSet(<<"q", "1">>, e, p, None) /\ UNCHANGED <<qcVars, threads, sc_lock, hs_last, rr_last, qaVars>>
    \/ ScClear /\ UNCHANGED <<qcVars, threads, sc_lock, hs_last, rr_last, qaVars>>
    \/ ScTick(MaxClock) /\ UNCHANGED <<qcVars, threads, sc_lock, hs_last, rr_last, qaVars>>

SpecSCLru == InitSCLru /\ [][NextSCLru]_vars

\* The persistence scenarios: the process is restarted with any capacity on
\* the file the last instance left, and the file may be damaged in between.
InitSCFile == ScInit({Rat(17, 20)}, 1..MaxFileCap)

NextSCFile ==
    \/ \E e \in {<<1, 0>>, <<0, 1>>} :
          ScGet(<<"q", "2">>, e, None) /\ UNCHANGED <<qcVars, threads, sc_lock, hs_last, rr_last, qaVars>>
    \/ \E e \in {<<1, 0>>, <<0, 1>>}, p \in Payloads :
          ScSet(<<"q", "1">>, e, p, None) /\ UNCHANGED <<qcVars, threads, sc_lock, hs_last, rr_last, qaVars>>
    \/ ScClear /\ UNCHANGED <<qcVars, threads, sc_lock, hs_last, rr_last, qaVars>>
    \/ ScTick(MaxFileClock) /\ UNCHANGED <<qcVars, threads, sc_lock, hs_last, rr_last, qaVars>>
    \/ \E m \in 1..MaxFileCap :
          ScNew(similarity_threshold, m) /\ UNCHANGED <<qcVars, threads, sc_lock, hs_last, rr_last, qaVars>>
    \/ ScCorruptFile /\ UNCHANGED <<qcVars, threads, sc_lock, hs_last, rr_last, qaVars>>
    \/ \E i \in 1..MaxFileCap : ScDropEmbedding(i) /\ UNCHANGED <<qcVars, threads, sc_lock, hs_last, rr_last, qaVars>>

SpecSCFile == InitSCFile /\ [][NextSCFile]_vars

----------------------------------------------------------------------------
(* Claims about SemanticCache *)

\* the entries a lookup under domain d may return: all when d is unset
ClaimAdmitted(c, d) == {i \in 1..Len(c) : d = None \/ c[i].domain = d}

SimTo(c, i, e) == CosineSimilarity(e, c[i].query_embedding)

\* entry i attains the maximum similarity to e among the entries in among
AttainsMax(c, among, e, i) ==
    i \in among /\ \A j \in among : RatGE(SimTo(c, i, e), SimTo(c, j, e))

\* C7: get is a hit iff the maximum cosine similarity between the query
\* embedding and the embeddings of the entries admitted by the domain filter is
\* >= similarity_threshold, and the entry returned attains that maximum.
C7_HitCondition ==
    \A e \in Embeddings, d \in Domains :
        LET o == GetOutcome(sc_cache, e, d)
            among == ClaimAdmitted(sc_cache, d)
        IN
        /\ o.outcome = "hit" <=>
              \E i \in among : RatGE(SimTo(sc_cache, i, e), similarity_threshold)
        /\ o.outcome = "hit" => AttainsMax(sc_cache, among, e, ScIndex(sc_cache, o.match))

\* C8: a get with a domain d never returns an entry stored under another
\* domain or under no domain, identical embedding or not; a get with the
\* domain unset considers all entries.
C8_DomainIsolation ==
    \A e \in Embeddings :
        /\ \A d \in Domains \ {None} :
              LET o == GetOutcome(sc_cache, e, d) IN
              o.outcome = "hit" => sc_cache[ScIndex(sc_cache, o.match)].domain = d
        /\ LET o == GetOutcome(sc_cache, e, None)
               all == 1..Len(sc_cache)
           IN
           /\ o.outcome = "hit" => AttainsMax(sc_cache, all, e, ScIndex(sc_cache, o.match))
           /\ \A i \in all :
                 (/\ RatGE(SimTo(sc_cache, i, e), similarity_threshold)
                  /\ RatGT(SimTo(sc_cache, i, e), Rat(0, 1)))
                     => o.outcome = "hit"

\* an entry stored under automotive was looked up with its own embedding under
\* fashion and missed, although the same lookup under automotive hits
C8_Witness ==
    /\ sc_last.op = "get" /\ sc_last.outcome = "miss"
    /\ \E i \in 1..Len(sc_cache) :
          /\ sc_cache[i].domain = Automotive
          /\ GetOutcome(sc_cache, sc_cache[i].query_embedding, Fashion).outcome = "miss"
          /\ GetOutcome(sc_cache, sc_cache[i].query_embedding, Automotive).outcome = "hit"
          /\ GetOutcome(sc_cache, sc_cache[i].query_embedding, None).outcome = "hit"

\* C9: after construction, loading a persisted file included, and after any
\* set, get and clear the number of entries never exceeds max_cache_size.
C9_SizeBound == Len(sc_cache) <= max_cache_size

\* C10: a set at capacity evicts exactly one entry, one with the oldest
\* last_accessed; an entry that a get hit returned at a later time than the
\* last access of every other stored entry is not the one evicted by the next
\* set, whenever it was inserted.  Below capacity nothing is evicted.
C10_SetStep ==
    LET n == Len(sc_cache)
        v == ScIndex(sc_cache, sc_last'.evicted[1])
    IN
    sc_last'.op = "set" =>
        IF n >= max_cache_size
        THEN /\ Len(sc_last'.evicted) = 1
             /\ ScHas(sc_cache, sc_last'.evicted[1])
             /\ \A j \in 1..n : sc_cache[v].last_accessed <= sc_cache[j].last_accessed
             /\ \A i \in 1..n :
                   (/\ n >= 2
                    /\ sc_cache[i].hit_count >= 1
                    /\ \A j \in (1..n) \ {i} :
                          sc_cache[i].last_accessed > sc_cache[j].last_accessed)
                       => i # v
             /\ \A i \in (1..n) \ {v} :
                   sc_cache[i].cache_id # sc_last'.match
                       => \E k \in 1..Len(sc_cache') : sc_cache'[k] = sc_cache[i]
             /\ sc_cache[v].cache_id # sc_last'.match
                   => ~ScHas(sc_cache', sc_cache[v].cache_id)
        ELSE /\ sc_last'.evicted = <<>>
             /\ \A i \in 1..n :
                   sc_cache[i].cache_id # sc_last'.match
                       => \E k \in 1..Len(sc_cache') : sc_cache'[k] = sc_cache[i]

C10_EvictionOrder == [][C10_SetStep]_vars

\* the entry inserted first was hit last: the set at capacity evicted the
\* entry inserted second
C10_Witness ==
    /\ sc_last.op = "set" /\ sc_last.evicted = <<1>>
    /\ max_cache_size = 2 /\ Len(sc_cache) = 2
    /\ sc_cache[1].cache_id = 0 /\ sc_cache[1].hit_count = 1
    /\ sc_cache[1].last_accessed = 2
    /\ sc_cache[2].cache_id = 2

\* the dict a hit on entry i with query embedding e is to return
HitDict(c, i, e) ==
    [answer |-> c[i].answer,
     sources |-> c[i].sources,
     metadata |-> [k \in DOMAIN c[i].metadata \cup
                         {"cache_hit", "cache_similarity", "cached_query"} |->
                      CASE k = "cache_hit" -> TRUE
                        [] k = "cache_similarity" -> SimTo(c, i, e)
                        [] k = "cached_query" -> c[i].query_text
                        [] OTHER -> c[i].metadata[k]]]

\* what a get on the current cache gives back, for every query embedding and
\* domain it may be called with
C11_Return ==
    \A e \in Embeddings, d \in Domains :
        LET o == GetOutcome(sc_cache, e, d) IN
        \/ o.ret = PyNone
        \/ /\ ScHas(sc_cache, o.match)
           /\ o.ret = Returned(HitDict(sc_cache, ScIndex(sc_cache, o.match), e))

\* what a get step does to the entries
C11_GetStep ==
    sc_last'.op = "get" =>
        /\ C11_Return
        /\ \/ /\ sc_last'.ret = PyNone
              /\ sc_cache' = sc_cache
           \/ /\ sc_last'.ret.kind = "value"
              /\ ScHas(sc_cache, sc_last'.match)
              /\ LET i == ScIndex(sc_cache, sc_last'.match) IN
                 sc_cache' = [sc_cache EXCEPT
                                 ![i].hit_count = sc_cache[i].hit_count + 1,
                                 ![i].last_accessed = sc_now]

\* C11: a get hit increments the matched entry's hit_count by exactly 1,
\* refreshes its last_accessed, changes no other entry and returns the stored
\* answer and sources with the stored metadata extended by cache_hit = true,
\* the matched similarity and the cached query text; a miss returns nothing
\* and leaves every entry unchanged.  Every get is one or the other.
C11_GetEffects == [][C11_GetStep]_vars

\* a step that changes the entry set or an entry
Mutation ==
    \/ sc_last'.op \in {"set", "clear"}
    \/ sc_last'.op = "get" /\ sc_last'.outcome = "hit"

C12_Step ==
    Mutation =>
        /\ sc_file' = SaveCache(sc_cache')
        /\ LoadCache(sc_file') = sc_cache'
        /\ \A e \in Embeddings, d \in Domains :
              GetOutcome(LoadCache(sc_file'), e, d) = GetOutcome(sc_cache', e, d)

\* C12: after every set, eviction, clear and get hit the persisted snapshot
\* equals the in-memory entry set: a SemanticCache constructed on the same
\* file holds the same entries and answers the same lookups.
C12_Persistence == [][C12_Step]_vars

\* the gets of the zero-norm rule: the query embedding has zero norm, or
\* there are candidates and all of them have zero-norm stored embeddings
ZeroNormCase(c, e, d) ==
    \/ Norm(e) = 0
    \/ /\ ClaimAdmitted(c, d) # {}
       /\ \A i \in ClaimAdmitted(c, d) : Norm(c[i].query_embedding) = 0

C13_Step ==
    sc_last'.op = "get" =>
        \A e \in Embeddings, d \in Domains :
            ZeroNormCase(sc_cache, e, d) => GetOutcome(sc_cache, e, d).ret = PyNone

\* C13: a get whose query embedding has zero norm, or whose only candidates
\* have zero-norm stored embeddings, is a miss: it returns nothing and does
\* not raise, for every similarity_threshold in [0, 1] and every cache content.
C13_ZeroNorm == [][C13_Step]_vars

\* the persisted file is not JSON, or an entry of it lacks its embedding
Malformed(file) ==
    \/ file.state = "corrupt"
    \/ /\ file.state = "ok"
       /\ \E i \in 1..Len(file.data) : ~file.data[i].query_embedding.present

C14_Step ==
    (sc_last'.op = "new" /\ Malformed(sc_file)) =>
        /\ sc_cache' = <<>>
        /\ sc_last'.ret.kind # "raise"

\* C14: constructing a SemanticCache on a malformed persisted file (not
\* parseable, or an entry lacking its embedding) does not raise and yields an
\* empty cache, with no partially loaded entry left behind.
C14_CorruptedFile == [][C14_Step]_vars

\* constructed on a file whose first entry is intact and whose second entry
\* lacks its embedding: the cache is empty
C14_Witness ==
    /\ sc_last.op = "new"
    /\ sc_file.state = "ok" /\ Len(sc_file.data) = 2
    /\ sc_file.data[1].query_embedding.present
    /\ ~sc_file.data[2].query_embedding.present
    /\ sc_cache = <<>>

----------------------------------------------------------------------------
(* SemanticCache under concurrent requests: get, set and clear run their      *)
(* bodies inside `with self.lock`, one statement at a time.                   *)

MaxConcCap == 1
MaxConcClock == 1
MaxConcCalls == 3

ScIdle(n, r) == [pc |-> "idle", op |-> "none", emb |-> <<>>, match |-> NoMatch,
                 tmp |-> 0, returned |-> r, calls |-> n]

\* history: the gets that returned an entry now removed or replaced are forgotten
ForgetReturned(ths, ids) ==
    [t \in DOMAIN ths |->
        [ths[t] EXCEPT !.returned = SelectSeq(@, LAMBDA x : x \notin ids)]]

\* a lock that hands itself out while held
LockFreeAlways(l) == TRUE

\* threading.Lock: acquire succeeds only on a released lock
LockFree(l) == l = 0

RECURSIVE CallsOf(_, _)
\* the calls the requests 1..n have made
CallsOf(ths, n) == IF n = 0 THEN 0 ELSE ths[n].calls + CallsOf(ths, n - 1)

\* a request calls get, set or clear and reaches `with self.lock`
TScCall(t, op, e) ==
    /\ threads[t].pc = "idle" /\ CallsOf(threads, NThreads) < MaxConcCalls
    /\ threads' = [threads EXCEPT ![t] =
          [@ EXCEPT !.pc = "acquire", !.op = op, !.emb = e, !.calls = @ + 1]]
    /\ UNCHANGED scVars

\* with self.lock: (enter)
TScAcquire(t) ==
    /\ threads[t].pc = "acquire"
    /\ LockFree(sc_lock)
    /\ sc_lock' = t
    /\ threads' = [threads EXCEPT ![t].pc =
          CASE threads[t].op = "get" -> "get_find"
            [] threads[t].op = "set" -> "set_check"
            [] OTHER -> "clear"]
    /\ UNCHANGED <<similarity_threshold, max_cache_size, sc_cache, sc_file,
                   sc_now, sc_last>>

\* with self.lock: (exit, also when the body raised)
TScRelease(t) ==
    /\ threads[t].pc \in {"release", "raise"}
    /\ sc_lock' = 0
    /\ threads' = [threads EXCEPT ![t] =
          IF @.pc = "raise" THEN [@ EXCEPT !.pc = "KeyError"]
          ELSE ScIdle(@.calls, @.returned)]
    /\ UNCHANGED <<similarity_threshold, max_cache_size, sc_cache, sc_file,
                   sc_now, sc_last>>

\* result = self._find_similar_query(query_embedding, domain); if result:
TScGetFind(t) ==
    /\ threads[t].pc = "get_find"
    /\ LET result == FindSimilarQuery(sc_cache, threads[t].emb, None) IN
       threads' = [threads EXCEPT ![t] =
          IF result.found
          THEN [@ EXCEPT !.pc = "get_read", !.match = result.match]
          ELSE [@ EXCEPT !.pc = "release"]]
    /\ UNCHANGED scVars

\* cached_entry = self.cache[cache_id]; cached_entry.get('hit_count', 0) + 1
TScGetRead(t) ==
    /\ threads[t].pc = "get_read"
    /\ threads' = [threads EXCEPT ![t] =
          IF ScHas(sc_cache, threads[t].match)
          THEN [@ EXCEPT !.pc = "get_write",
                         !.tmp = sc_cache[ScIndex(sc_cache, threads[t].match)].hit_count + 1]
          ELSE [@ EXCEPT !.pc = "raise"]]
    /\ UNCHANGED scVars

\* cached_entry['hit_count'] = ...; cached_entry['last_accessed'] = now; return
\* (an entry no longer in the dict is updated out of sight)
TScGetWrite(t) ==
    /\ threads[t].pc = "get_write"
    /\ IF ScHas(sc_cache, threads[t].match)
       THEN LET i == ScIndex(sc_cache, threads[t].match) IN
            /\ sc_cache' = [sc_cache EXCEPT ![i].hit_count = threads[t].tmp,
                                            ![i].last_accessed = sc_now]
            /\ threads' = [threads EXCEPT ![t] =
                  [@ EXCEPT !.pc = "release", !.returned = Append(@, threads[t].match)]]
       ELSE /\ sc_cache' = sc_cache
            /\ threads' = [threads EXCEPT ![t].pc = "release"]
    /\ UNCHANGED <<similarity_threshold, max_cache_size, sc_file, sc_now,
                   sc_last, sc_lock>>

\* if len(self.cache) >= self.max_cache_size:
TScSetCheck(t) ==
    /\ threads[t].pc = "set_check"
    /\ threads' = [threads EXCEPT ![t].pc =
          IF AtCapacity(sc_cache) THEN "set_evict" ELSE "set_store"]
    /\ UNCHANGED scVars

\* self._evict_oldest()
TScSetEvict(t) ==
    /\ threads[t].pc = "set_evict"
    /\ sc_cache' = EvictOldest(sc_cache)
    /\ threads' = [ForgetReturned(threads,
                       IF sc_cache = <<>> THEN {}
                       ELSE {sc_cache[OldestIndex(sc_cache)].cache_id})
                   EXCEPT ![t].pc = "set_store"]
    /\ UNCHANGED <<similarity_threshold, max_cache_size, sc_file, sc_now,
                   sc_last, sc_lock>>

\* cache_id = f"sc_{datetime.now()...}"; self.cache[cache_id] = {...}
TScSetStore(t) ==
    /\ threads[t].pc = "set_store"
    /\ LET p == CHOOSE x \in Payloads : TRUE
           cache_id == sc_now
       IN
       sc_cache' = ScAssign(sc_cache, cache_id,
           [cache_id |-> cache_id, query_text |-> <<"q", "1">>,
            query_embedding |-> threads[t].emb, answer |-> p.answer,
            sources |-> p.sources, domain |-> None, metadata |-> p.metadata,
            created_at |-> sc_now, last_accessed |-> sc_now, hit_count |-> 0])
    /\ threads' = [ForgetReturned(threads, {sc_now}) EXCEPT ![t].pc = "set_save"]
    /\ UNCHANGED <<similarity_threshold, max_cache_size, sc_file, sc_now,
                   sc_last, sc_lock>>

\* self._save_cache()
TScSetSave(t) ==
    /\ threads[t].pc = "set_save"
    /\ sc_file' = SaveCache(sc_cache)
    /\ threads' = [threads EXCEPT ![t].pc = "release"]
    /\ UNCHANGED <<similarity_threshold, max_cache_size, sc_cache, sc_now,
                   sc_last, sc_lock>>

\* self.cache = {}; self._save_cache()
TScClear(t) ==
    /\ threads[t].pc = "clear"
    /\ sc_cache' = <<>>
    /\ sc_file' = SaveCache(<<>>)
    /\ threads' = [ForgetReturned(threads, {sc_cache[i].cache_id : i \in 1..Len(sc_cache)})
                   EXCEPT ![t].pc = "release"]
    /\ UNCHANGED <<similarity_threshold, max_cache_size, sc_now, sc_last, sc_lock>>

\* the clock advances while requests run
TScTick ==
    /\ sc_now < MaxConcClock
    /\ sc_now' = sc_now + 1
    /\ UNCHANGED <<similarity_threshold, max_cache_size, sc_cache, sc_file,
                   sc_last, sc_lock, threads>>

\* get_semantic_cache: one SemanticCache shared by every request
InitSCConc ==
    /\ max_size = 1 /\ ttl_seconds = 1 /\ cache = <<>>
    /\ hits = 0 /\ misses = 0 /\ evictions = 0 /\ now = 0
    /\ recency = <<>> /\ getCalls = 0 /\ lastOp = NoCall("init")
    /\ threads = [t \in Threads |-> ScIdle(0, <<>>)]
    /\ similarity_threshold = Rat(17, 20)
    /\ max_cache_size \in 1..MaxConcCap
    /\ sc_file = [state |-> "absent", data |-> <<>>]
    /\ sc_cache = LoadCache(sc_file)
    /\ sc_now = 0
    /\ sc_last = ScNoCall("init")
    /\ sc_lock = 0
    /\ NoHybridSearch
    /\ NoReranker
    /\ NoPipeline

NextSCConc ==
    \/ \E t \in Threads, op \in {"get", "set", "clear"} :
          TScCall(t, op, <<1, 0>>) /\ UNCHANGED <<qcVars, hs_last, rr_last, qaVars>>
    \/ \E t \in Threads : TScAcquire(t) /\ UNCHANGED <<qcVars, hs_last, rr_last, qaVars>>
    \/ \E t \in Threads : TScRelease(t) /\ UNCHANGED <<qcVars, hs_last, rr_last, qaVars>>
    \/ \E t \in Threads : TScGetFind(t) /\ UNCHANGED <<qcVars, hs_last, rr_last, qaVars>>
    \/ \E t \in Threads : TScGetRead(t) /\ UNCHANGED <<qcVars, hs_last, rr_last, qaVars>>
    \/ \E t \in Threads : TScGetWrite(t) /\ UNCHANGED <<qcVars, hs_last, rr_last, qaVars>>
    \/ \E t \in Threads : TScSetCheck(t) /\ UNCHANGED <<qcVars, hs_last, rr_last, qaVars>>
    \/ \E t \in Threads : TScSetEvict(t) /\ UNCHANGED <<qcVars, hs_last, rr_last, qaVars>>
    \/ \E t \in Threads : TScSetStore(t) /\ UNCHANGED <<qcVars, hs_last, rr_last, qaVars>>
    \/ \E t \in Threads : TScSetSave(t) /\ UNCHANGED <<qcVars, hs_last, rr_last, qaVars>>
    \/ \E t \in Threads : TScClear(t) /\ UNCHANGED <<qcVars, hs_last, rr_last, qaVars>>
    \/ TScTick /\ UNCHANGED <<qcVars, hs_last, rr_last, qaVars>>

SpecSCConc == InitSCConc /\ [][NextSCConc]_vars

\* the requests inside the body of get, set or clear
InBody == {t \in Threads : threads[t].pc \notin {"idle", "acquire", "KeyError"}}

RECURSIVE CountOf(_, _)
CountOf(s, x) ==
    IF s = <<>> THEN 0 ELSE (IF Head(s) = x THEN 1 ELSE 0) + CountOf(Tail(s), x)

RECURSIVE ReturnedBy(_, _)
\* the number of get calls of the requests 1..n that returned the entry id
ReturnedBy(n, id) ==
    IF n = 0 THEN 0 ELSE CountOf(threads[n].returned, id) + ReturnedBy(n - 1, id)

\* C15: get, set and clear of one SemanticCache never run concurrently: under
\* every interleaving an entry's hit_count equals the number of get calls that
\* returned it, and the cache never holds more than max_cache_size entries.
C15_MutualExclusion ==
    /\ Cardinality(InBody) <= 1
    /\ \A t \in Threads : threads[t].pc # "KeyError"
    /\ \A i \in 1..Len(sc_cache) :
          sc_cache[i].hit_count = ReturnedBy(NThreads, sc_cache[i].cache_id)
    /\ Len(sc_cache) <= max_cache_size

\* request 1 has returned the entry and still holds the lock while request 2
\* waits to enter its get
C15_Witness ==
    /\ Len(sc_cache) = 1 /\ sc_cache[1].hit_count = 1
    /\ sc_lock = 1 /\ threads[1].pc = "release"
    /\ threads[1].returned = <<sc_cache[1].cache_id>>
    /\ threads[2].pc = "acquire" /\ threads[2].op = "get"

----------------------------------------------------------------------------
(* HybridSearchEngine (src/src/hybrid_search.py).  Scores are exact          *)
(* rationals; a search result is the dict of its id, document and metadata.  *)

MaxListLen == 2

\* the default of the parameter k of reciprocal_rank_fusion
RrfK == 60

RatAdd(a, b) == Rat(a.num * b.den + b.num * a.den, a.den * b.den)

RatEQ(a, b) == a.num * b.den = b.num * a.den

DocIds == {"A", "B", "C"}

\* a search result for the chunk id, as semantic_search and bm25_search build it
Result(id, from) ==
    [id |-> id, document |-> <<"doc", id>>, metadata |-> <<"meta", id>>, from |-> from]

\* the ranked lists without a repeated id, of at most MaxListLen results
RankedLists(from) ==
    UNION {{[i \in 1..n |-> Result(f[i], from)] :
               f \in {g \in [1..n -> DocIds] : \A i, j \in 1..n : i # j => g[i] # g[j]}} :
           n \in 0..MaxListLen}

\* rrf_scores.get(doc_id, 0)
ScoreGet(rrf_scores, doc_id) ==
    IF \E i \in 1..Len(rrf_scores) : rrf_scores[i].id = doc_id
    THEN rrf_scores[CHOOSE i \in 1..Len(rrf_scores) : rrf_scores[i].id = doc_id].score
    ELSE Rat(0, 1)

\* rrf_scores[doc_id] = value: a new key goes last, an old key keeps its place
ScorePut(rrf_scores, doc_id, value) ==
    IF \E i \in 1..Len(rrf_scores) : rrf_scores[i].id = doc_id
    THEN [i \in 1..Len(rrf_scores) |->
             IF rrf_scores[i].id = doc_id THEN [id |-> doc_id, score |-> value]
             ELSE rrf_scores[i]]
    ELSE Append(rrf_scores, [id |-> doc_id, score |-> value])

\* a contribution that counts ranks from 0
ContributionZeroBased(k, rank) == Rat(1, k + rank - 1)

\* 1 / (k + rank)
Contribution(k, rank) == Rat(1, k + rank)

\* a loop body that forgets what the id has already collected
Overwrite(rrf_scores, doc_id, k, rank) ==
    ScorePut(rrf_scores, doc_id, Contribution(k, rank))

\* rrf_scores[doc_id] = rrf_scores.get(doc_id, 0) + 1 / (k + rank)
Accumulate(rrf_scores, doc_id, k, rank) ==
    ScorePut(rrf_scores, doc_id,
             RatAdd(ScoreGet(rrf_scores, doc_id), Contribution(k, rank)))

RECURSIVE AddResults(_, _, _, _)
\* for rank, result in enumerate(results, 1): ...
AddResults(rrf_scores, results, rank, k) ==
    IF rank > Len(results) THEN rrf_scores
    ELSE AddResults(Accumulate(rrf_scores, results[rank].id, k, rank),
                    results, rank + 1, k)

RECURSIVE InsertDescLast(_, _)
\* x goes behind every element that does not score lower
InsertDescLast(sorted, x) ==
    IF sorted = <<>> THEN <<x>>
    ELSE IF RatGT(x.score, Head(sorted).score) THEN <<x>> \o sorted
    ELSE <<Head(sorted)>> \o InsertDescLast(Tail(sorted), x)

RECURSIVE InsertDescFirst(_, _)
\* x goes before every element that does not score higher
InsertDescFirst(sorted, x) ==
    IF sorted = <<>> THEN <<x>>
    ELSE IF RatGE(x.score, Head(sorted).score) THEN <<x>> \o sorted
    ELSE <<Head(sorted)>> \o InsertDescFirst(Tail(sorted), x)

RECURSIVE SortedReversingTies(_, _)
\* a descending sort that reverses the order of equal scores
SortedReversingTies(rrf_scores, acc) ==
    IF rrf_scores = <<>> THEN acc
    ELSE SortedReversingTies(Tail(rrf_scores), InsertDescFirst(acc, Head(rrf_scores)))

RECURSIVE SortedDesc(_, _)
\* sorted(rrf_scores.keys(), key=..., reverse=True): stable, highest first
SortedDesc(rrf_scores, acc) ==
    IF rrf_scores = <<>> THEN acc
    ELSE SortedDesc(Tail(rrf_scores), InsertDescLast(acc, Head(rrf_scores)))

\* the first result with the id in semantic_results + bm25_results
FindDoc(results, doc_id) ==
    IF \E i \in 1..Len(results) : results[i].id = doc_id
    THEN Returned(results[CHOOSE i \in 1..Len(results) :
                             /\ results[i].id = doc_id
                             /\ \A j \in 1..(i - 1) : results[j].id # doc_id])
    ELSE PyNone

RECURSIVE BuildFused(_, _, _)
\* the loop that builds fused_results
BuildFused(sorted, results, acc) ==
    IF sorted = <<>> THEN acc
    ELSE LET doc == FindDoc(results, Head(sorted).id) IN
         BuildFused(Tail(sorted), results,
                    IF doc = PyNone THEN acc
                    ELSE Append(acc, [id |-> Head(sorted).id,
                                      document |-> doc.value.document,
                                      rrf_score |-> Head(sorted).score,
                                      metadata |-> doc.value.metadata]))

\* HybridSearchEngine.reciprocal_rank_fusion
ReciprocalRankFusion(semantic_results, bm25_results, k) ==
    LET rrf_scores == AddResults(AddResults(<<>>, semantic_results, 1, k),
                                 bm25_results, 1, k)
    IN BuildFused(SortedDesc(rrf_scores, <<>>), semantic_results \o bm25_results, <<>>)

\* the call reciprocal_rank_fusion(semantic_results, bm25_results, k) returns
Fuse ==
    /\ hs_last.op = "args"
    /\ hs_last' = [hs_last EXCEPT
          !.op = "rrf",
          !.fused = ReciprocalRankFusion(hs_last.semantic_results,
                                         hs_last.bm25_results, hs_last.k)]

\* the pairs of ranked lists reciprocal_rank_fusion is called with
InitRRF ==
    /\ NoQueryCache
    /\ NoReranker
    /\ NoPipeline
    /\ similarity_threshold = Rat(1, 1) /\ max_cache_size = 1 /\ sc_cache = <<>>
    /\ sc_file = [state |-> "absent", data |-> <<>>] /\ sc_now = 0
    /\ sc_last = ScNoCall("init") /\ sc_lock = 0
    /\ \E a \in RankedLists("semantic"), b \in RankedLists("bm25"), k \in {RrfK, 1} :
          hs_last = [op |-> "args", semantic_results |-> a, bm25_results |-> b,
                     k |-> k, fused |-> <<>>]

NextRRF ==
    \/ Fuse /\ UNCHANGED <<qcVars, threads, scVars, rr_last, qaVars>>

SpecRRF == InitRRF /\ [][NextRRF]_vars

----------------------------------------------------------------------------
(* Claims about reciprocal_rank_fusion *)

IdsOf(results) == {results[i].id : i \in 1..Len(results)}

IdSeq(results) == [i \in 1..Len(results) |-> results[i].id]

\* the 1-based rank of the id in a list that contains it
RankIn(results, id) == CHOOSE i \in 1..Len(results) : results[i].id = id

\* what one list gives the id: 1/(k + rank), or 0 when the list lacks it
TermOf(results, id, k) ==
    IF id \in IdsOf(results) THEN Rat(1, k + RankIn(results, id)) ELSE Rat(0, 1)

\* the fused score of an id of the fused list
FusedScore(fused, id) == fused[RankIn(fused, id)].rrf_score

C16_Scores(a, b, k, fused) ==
    /\ \A id \in IdsOf(a) \cup IdsOf(b) :
          /\ id \in IdsOf(fused)
          /\ RatEQ(FusedScore(fused, id), RatAdd(TermOf(a, id, k), TermOf(b, id, k)))
    /\ \A id \in IdsOf(a) \cap IdsOf(b), other \in IdsOf(a) \cup IdsOf(b) :
          (/\ RankIn(a, id) = 1 /\ RankIn(b, id) = 1
           /\ other \notin IdsOf(a) \cap IdsOf(b))
              => RatGT(FusedScore(fused, id), FusedScore(fused, other))
    /\ (IdSeq(a) = <<"A">> /\ IdSeq(b) = <<"A", "B">>)
          => /\ IdSeq(fused) = <<"A", "B">>
             /\ RatGT(fused[1].rrf_score, fused[2].rrf_score)

\* C16: each id's fused score is the sum over the lists containing it of
\* 1/(k + rank), rank 1-based, k = 60 by default; an id at rank 1 in both
\* lists scores strictly higher than any id of only one list; with A at rank
\* 1 in both lists and B only in the lexical list the output is [A, B].
C16_RrfScoring ==
    hs_last.op = "rrf" =>
        C16_Scores(hs_last.semantic_results, hs_last.bm25_results, hs_last.k,
                   hs_last.fused)

\* the scenario: A leads both lists, B is in the lexical list only, k = 60
C16_Witness ==
    /\ hs_last.op = "rrf" /\ hs_last.k = RrfK
    /\ IdSeq(hs_last.semantic_results) = <<"A">>
    /\ IdSeq(hs_last.bm25_results) = <<"A", "B">>
    /\ IdSeq(hs_last.fused) = <<"A", "B">>
    /\ hs_last.fused[1].rrf_score = Rat(122, 3721)

\* the ids in the order of their first appearance: the first list, then the
\* ids that only the second list has
FirstAppearance(a, b) ==
    IdSeq(a) \o IdSeq(SelectSeq(b, LAMBDA r : r.id \notin IdsOf(a)))

PosIn(ids, id) == CHOOSE i \in 1..Len(ids) : ids[i] = id

C17_Order(a, b, fused) ==
    /\ IdsOf(fused) = IdsOf(a) \cup IdsOf(b)
    /\ Len(fused) = Cardinality(IdsOf(a) \cup IdsOf(b))
    /\ \A i, j \in 1..Len(fused) :
          i < j =>
             \/ RatGT(fused[i].rrf_score, fused[j].rrf_score)
             \/ /\ RatEQ(fused[i].rrf_score, fused[j].rrf_score)
                /\ PosIn(FirstAppearance(a, b), fused[i].id)
                      < PosIn(FirstAppearance(a, b), fused[j].id)

\* C17: the fused list holds every id of either list exactly once, by fused
\* score descending, equal scores in the order of first appearance.
C17_RrfOrder ==
    hs_last.op = "rrf" =>
        C17_Order(hs_last.semantic_results, hs_last.bm25_results, hs_last.fused)

\* B is in both lists and leads; A and C tie and keep the order first list,
\* second list
C17_Witness ==
    /\ hs_last.op = "rrf"
    /\ IdSeq(hs_last.semantic_results) = <<"A", "B">>
    /\ IdSeq(hs_last.bm25_results) = <<"C", "B">>
    /\ IdSeq(hs_last.fused) = <<"B", "A", "C">>
    /\ RatEQ(hs_last.fused[2].rrf_score, hs_last.fused[3].rrf_score)

\* C18: reciprocal_rank_fusion(a, b) and reciprocal_rank_fusion(b, a) give
\* every id the same fused score.
C18_RrfSymmetry ==
    hs_last.op = "rrf" =>
        LET swapped == ReciprocalRankFusion(hs_last.bm25_results,
                                            hs_last.semantic_results, hs_last.k)
        IN
        /\ IdsOf(swapped) = IdsOf(hs_last.fused)
        /\ \A id \in IdsOf(hs_last.fused) :
              RatEQ(FusedScore(hs_last.fused, id), FusedScore(swapped, id))

\* B is second in the first list and first in the second list
C18_Witness ==
    /\ hs_last.op = "rrf" /\ hs_last.k = RrfK
    /\ IdSeq(hs_last.semantic_results) = <<"A", "B">>
    /\ IdSeq(hs_last.bm25_results) = <<"B">>
    /\ RatEQ(FusedScore(hs_last.fused, "B"), RatAdd(Rat(1, 62), Rat(1, 61)))

----------------------------------------------------------------------------
(* HybridSearchEngine.search over a corpus of four chunks.  How the vector   *)
(* index and the BM25 scores rank the corpus for a query is the index's      *)
(* answer, any ranking; a scenario is one call and the rankings it meets.    *)

MaxN == 2

Semantic == <<"s", "e", "m", "a", "n", "t", "i", "c">>

Medical == <<"m", "e", "d", "i", "c", "a", "l">>

\* self.all_ids with the domain of self.all_metadatas
Corpus ==
    <<[id |-> "A", domain |-> Automotive], [id |-> "B", domain |-> Automotive],
      [id |-> "C", domain |-> Fashion], [id |-> "D", domain |-> Automotive]>>

DomainOf(id) == Corpus[CHOOSE i \in 1..Len(Corpus) : Corpus[i].id = id].domain

\* the orders in which an index may rank the whole corpus
Rankings ==
    {r \in [1..Len(Corpus) -> {Corpus[i].id : i \in 1..Len(Corpus)}] :
        \A i, j \in 1..Len(Corpus) : i # j => r[i] # r[j]}

Take(s, n) == SubSeq(s, 1, IF n < Len(s) THEN n ELSE Len(s))

\* semantic_search: collection.query(n_results, where={"domain": domain})
SemanticSearch(ranking, n_results, domain) ==
    LET matching == SelectSeq(ranking, LAMBDA id : ~Truthy(domain) \/ DomainOf(id) = domain)
    IN [i \in 1..Len(Take(matching, n_results)) |-> Result(matching[i], "semantic")]

RECURSIVE Bm25Loop(_, _, _, _, _)
\* the loop of bm25_search over top_indices
Bm25Loop(top_indices, idx, n_results, domain, results) ==
    IF idx > Len(top_indices) THEN results
    ELSE IF Truthy(domain) /\ DomainOf(top_indices[idx]) # domain
    THEN Bm25Loop(top_indices, idx + 1, n_results, domain, results)
    ELSE LET appended == Append(results, Result(top_indices[idx], "bm25")) IN
         IF Len(appended) >= n_results THEN appended
         ELSE Bm25Loop(top_indices, idx + 1, n_results, domain, appended)

\* bm25_search
Bm25Search(ranking, n_results, domain) == Bm25Loop(ranking, 1, n_results, domain, <<>>)

\* a retrieval count of twice the final count
RetrievalCountDouble(n_results) == n_results * 2

\* retrieval_count = n_results * 3
RetrievalCount(n_results) == n_results * 3

\* a dispatch that takes every other method for 'hybrid'
BranchLenient(method) ==
    CASE method = Semantic -> "semantic"
      [] method = Bm25 -> "bm25"
      [] OTHER -> "hybrid"

\* the if / elif chain of search
Branch(method) ==
    CASE method = Semantic -> "semantic"
      [] method = Bm25 -> "bm25"
      [] method = Hybrid -> "hybrid"
      [] OTHER -> "else"

SearchCall(fn, query, n_results, domain) ==
    [fn |-> fn, query |-> query, n_results |-> n_results, domain |-> domain]

\* HybridSearchEngine.search; sem and bm are the rankings the indexes give
Search(query, n_results, domain, method, sem, bm) ==
    LET branch == Branch(method)
        retrieval_count == RetrievalCount(n_results)
        fused_results ==
            ReciprocalRankFusion(SemanticSearch(sem, retrieval_count, domain),
                                 Bm25Search(bm, retrieval_count, domain), RrfK)
    IN
    /\ hs_last.op = "call"
    /\ hs_last' =
        [op |-> "search", query |-> query, n_results |-> n_results,
         domain |-> domain, method |-> method, sem |-> sem, bm |-> bm,
         calls |->
            CASE branch = "semantic" ->
                    <<SearchCall("semantic_search", query, n_results, domain)>>
              [] branch = "bm25" ->
                    <<SearchCall("bm25_search", query, n_results, domain)>>
              [] branch = "hybrid" ->
                    <<SearchCall("semantic_search", query, retrieval_count, domain),
                      SearchCall("bm25_search", query, retrieval_count, domain)>>
              [] OTHER -> <<>>,
         ret |->
            CASE branch = "semantic" ->
                    Returned(SemanticSearch(sem, n_results, domain))
              [] branch = "bm25" ->
                    Returned(Bm25Search(bm, n_results, domain))
              [] branch = "hybrid" ->
                    Returned(Take(fused_results, n_results))
              [] OTHER -> Raised("ValueError")]

SearchQueries == {<<"q", "1">>, <<"q", "2">>}

SearchDomains == {None, <<>>, Automotive, Medical}

SearchMethods == {Semantic, Bm25, Hybrid, <<"H", "y", "b", "r", "i", "d">>, <<"r", "r", "f">>}

InitSearch ==
    /\ NoQueryCache
    /\ NoReranker
    /\ NoPipeline
    /\ similarity_threshold = Rat(1, 1) /\ max_cache_size = 1 /\ sc_cache = <<>>
    /\ sc_file = [state |-> "absent", data |-> <<>>] /\ sc_now = 0
    /\ sc_last = ScNoCall("init") /\ sc_lock = 0
    /\ \E q \in SearchQueries, n \in 1..MaxN, d \in SearchDomains,
          m \in SearchMethods, sem \in Rankings, bm \in Rankings :
          hs_last = [op |-> "call", query |-> q, n_results |-> n, domain |-> d,
                     method |-> m, sem |-> sem, bm |-> bm]

NextSearch ==
    \/ Search(hs_last.query, hs_last.n_results, hs_last.domain, hs_last.method,
              hs_last.sem, hs_last.bm)
          /\ UNCHANGED <<qcVars, threads, scVars, rr_last, qaVars>>

SpecSearch == InitSearch /\ [][NextSearch]_vars

----------------------------------------------------------------------------
(* Claims about HybridSearchEngine.search *)

\* the chunks of the ranking that pass the domain filter, at most n of them
Candidates(ranking, n, domain, from) ==
    LET matching == SelectSeq(ranking, LAMBDA id : domain \in {None, <<>>} \/ DomainOf(id) = domain)
    IN [i \in 1..(IF n < Len(matching) THEN n ELSE Len(matching)) |-> Result(matching[i], from)]

\* C19: search with 'hybrid' asks semantic_search and bm25_search for 3n
\* candidates each, with the query and domain it was given, fuses them with
\* RRF and returns the first n of the fused list; when neither sub-search has
\* a candidate under the domain filter it returns the empty list, not an error.
C19_HybridSearch ==
    (hs_last.op = "search" /\ hs_last.method = Hybrid) =>
        LET n == hs_last.n_results
            s == Candidates(hs_last.sem, 3 * n, hs_last.domain, "semantic")
            b == Candidates(hs_last.bm, 3 * n, hs_last.domain, "bm25")
            fused == ReciprocalRankFusion(s, b, RrfK)
        IN
        /\ hs_last.calls =
              <<SearchCall("semantic_search", hs_last.query, 3 * n, hs_last.domain),
                SearchCall("bm25_search", hs_last.query, 3 * n, hs_last.domain)>>
        /\ hs_last.ret.kind = "value"
        /\ Len(hs_last.ret.value) <= n
        /\ hs_last.ret.value = SubSeq(fused, 1, IF n < Len(fused) THEN n ELSE Len(fused))
        /\ (s = <<>> /\ b = <<>>) => hs_last.ret.value = <<>>

\* n = 1 over the whole corpus: three candidates from each index, one result
C19_Witness ==
    /\ hs_last.op = "search" /\ hs_last.method = Hybrid
    /\ hs_last.n_results = 1 /\ hs_last.domain = None
    /\ hs_last.sem = <<"A", "B", "C", "D">> /\ hs_last.bm = <<"D", "C", "B", "A">>
    /\ hs_last.calls[1].n_results = 3 /\ hs_last.calls[2].n_results = 3
    /\ IdSeq(hs_last.ret.value) = <<"B">>

\* no chunk of the corpus is in the domain: the empty list
C19_WitnessEmpty ==
    /\ hs_last.op = "search" /\ hs_last.method = Hybrid
    /\ hs_last.domain = Medical
    /\ hs_last.ret = Returned(<<>>)

\* C20: search with a method other than 'semantic', 'bm25' and 'hybrid' raises
\* ValueError and calls neither the vector index nor the lexical index.
C20_InvalidMethod ==
    (hs_last.op = "search" /\ hs_last.method \notin {Semantic, Bm25, Hybrid}) =>
        /\ hs_last.ret = Raised("ValueError")
        /\ hs_last.calls = <<>>

\* 'Hybrid' is not 'hybrid'
C20_Witness ==
    /\ hs_last.op = "search"
    /\ hs_last.method = <<"H", "y", "b", "r", "i", "d">>
    /\ hs_last.ret = Raised("ValueError")
    /\ hs_last.calls = <<>>

----------------------------------------------------------------------------
(* HybridSearchEngine.bm25_search called on its own *)

MaxScore == 1
MaxBm25N == 2

CorpusIds == {Corpus[i].id : i \in 1..Len(Corpus)}

\* self.bm25.get_scores(tokenized_query): one score for every indexed chunk
Bm25Scores == [CorpusIds -> 0..MaxScore]

\* np.argsort(scores)[::-1]: the chunks by descending score; the order among
\* equal scores is the sort's choice
ArgsortDesc(scores) ==
    {r \in Rankings : \A i, j \in 1..Len(r) : i < j => scores[r[i]] >= scores[r[j]]}

RECURSIVE Bm25Scanned(_, _, _, _, _)
\* the number of entries of top_indices the loop of bm25_search visits
Bm25Scanned(top_indices, idx, n_results, domain, collected) ==
    IF idx > Len(top_indices) THEN Len(top_indices)
    ELSE IF Truthy(domain) /\ DomainOf(top_indices[idx]) # domain
    THEN Bm25Scanned(top_indices, idx + 1, n_results, domain, collected)
    ELSE IF collected + 1 >= n_results THEN idx
    ELSE Bm25Scanned(top_indices, idx + 1, n_results, domain, collected + 1)

\* "score": scores[idx] of each result
WithScores(results, scores) ==
    [i \in 1..Len(results) |-> [id |-> results[i].id, document |-> results[i].document,
                                score |-> scores[results[i].id],
                                metadata |-> [domain |-> DomainOf(results[i].id)]]]

\* bm25_search(query, n_results, domain) on an index that scores the chunks
\* by scores and sorts them as top_indices
Bm25SearchCall ==
    /\ hs_last.op = "bm25_args"
    /\ hs_last' =
        [op |-> "bm25_search", n_results |-> hs_last.n_results,
         domain |-> hs_last.domain, scores |-> hs_last.scores,
         top_indices |-> hs_last.top_indices,
         scanned |-> Bm25Scanned(hs_last.top_indices, 1, hs_last.n_results,
                                 hs_last.domain, 0),
         ret |-> Returned(WithScores(Bm25Search(hs_last.top_indices, hs_last.n_results,
                                                hs_last.domain), hs_last.scores))]

InitBm25 ==
    /\ NoQueryCache
    /\ NoReranker
    /\ NoPipeline
    /\ similarity_threshold = Rat(1, 1) /\ max_cache_size = 1 /\ sc_cache = <<>>
    /\ sc_file = [state |-> "absent", data |-> <<>>] /\ sc_now = 0
    /\ sc_last = ScNoCall("init") /\ sc_lock = 0
    /\ \E n \in 0..MaxBm25N, d \in SearchDomains, s \in Bm25Scores :
          \E t \in ArgsortDesc(s) :
             hs_last = [op |-> "bm25_args", n_results |-> n, domain |-> d,
                        scores |-> s, top_indices |-> t]

NextBm25 ==
    \/ Bm25SearchCall /\ UNCHANGED <<qcVars, threads, scVars, rr_last, qaVars>>

SpecBm25 == InitBm25 /\ [][NextBm25]_vars

----------------------------------------------------------------------------
(* Claims about bm25_search *)

\* the chunks among the first m of top_indices that pass the domain filter
MatchesIn(top_indices, m, domain) ==
    Cardinality({i \in 1..m : domain \in {None, <<>>} \/ DomainOf(top_indices[i]) = domain})

\* C21: for every n >= 0 and every domain filter bm25_search returns at most n
\* results, every result is of the filter's domain when a filter is given,
\* the results are in non-increasing score order, and the scan stops as soon
\* as n matches are collected: no entry is visited once n matches were found.
C21_Bm25Bound ==
    hs_last.op = "bm25_search" =>
        LET n == hs_last.n_results
            res == hs_last.ret.value
        IN
        /\ hs_last.ret.kind = "value"
        /\ Len(res) <= n
        /\ hs_last.domain \notin {None, <<>>} =>
              \A i \in 1..Len(res) : res[i].metadata.domain = hs_last.domain
        /\ \A i, j \in 1..Len(res) : i < j => res[i].score >= res[j].score
        /\ \A m \in 1..hs_last.scanned :
              MatchesIn(hs_last.top_indices, m - 1, hs_last.domain) < n

----------------------------------------------------------------------------
(* rerank_chunks and rerank_with_ollama *)

MaxChunks == 3
MaxTopK == 2
MaxRespLen == 3

Ollama == <<"o", "l", "l", "a", "m", "a">>
NoneMethod == <<"n", "o", "n", "e">>

IsDigit(c) == c \in {"0", "1", "2", "3", "4", "5", "6", "7", "8", "9"}

DigitValue(c) == CHOOSE d \in 0..9 : Digit(d) = c

\* int(num_str) for a text of digits
RECURSIVE PyInt(_)
PyInt(s) ==
    IF s = <<>> THEN 0 ELSE 10 * PyInt(SubSeq(s, 1, Len(s) - 1)) + DigitValue(s[Len(s)])

RECURSIVE FindAllLoop(_, _, _, _)
\* re.findall(r'\d+', text): the maximal runs of digits, left to right
FindAllLoop(text, i, run, found) ==
    IF i > Len(text) THEN (IF run = <<>> THEN found ELSE Append(found, run))
    ELSE IF IsDigit(text[i]) THEN FindAllLoop(text, i + 1, Append(run, text[i]), found)
    ELSE FindAllLoop(text, i + 1, <<>>, IF run = <<>> THEN found ELSE Append(found, run))

FindAllDigits(text) == FindAllLoop(text, 1, <<>>, <<>>)

\* a slip: the list is not cut
SliceAll(s, top_k) == s

\* chunks[:top_k] for top_k >= 0
Slice(s, top_k) == SubSeq(s, 1, IF top_k < Len(s) THEN top_k ELSE Len(s))

RECURSIVE RankedIndices(_, _, _)
\* the loop over numbers[:top_k]: the 0-based indices that lie inside chunks
RankedIndices(numbers, len_chunks, ranked_indices) ==
    IF numbers = <<>> THEN ranked_indices
    ELSE LET idx == PyInt(Head(numbers)) - 1 IN
         RankedIndices(Tail(numbers), len_chunks,
                       IF 0 <= idx /\ idx < len_chunks
                       THEN Append(ranked_indices, idx) ELSE ranked_indices)

\* [i for i in range(len(chunks)) if i not in ranked_indices]
Remaining(len_chunks, ranked_indices) ==
    SelectSeq([i \in 1..len_chunks |-> i - 1],
              LAMBDA i : \A j \in 1..Len(ranked_indices) : ranked_indices[j] # i)

\* a slip: no filling when the response names too few valid documents
FillNothing(ranked_indices, len_chunks, top_k) == ranked_indices

\* if len(ranked_indices) < top_k: ranked_indices.extend(remaining[:top_k - len])
Fill(ranked_indices, len_chunks, top_k) ==
    IF Len(ranked_indices) < top_k
    THEN ranked_indices \o
         Slice(Remaining(len_chunks, ranked_indices), top_k - Len(ranked_indices))
    ELSE ranked_indices

\* what the two returned lists are
Reranked(chunks, metadatas) == Returned([chunks |-> chunks, metadatas |-> metadatas])

\* a slip: a failed call gives all the chunks back
FallbackAll(chunks, metadatas, top_k) == Reranked(chunks, metadatas)

\* return chunks[:top_k], metadatas[:top_k]
Fallback(chunks, metadatas, top_k) == Reranked(Slice(chunks, top_k), Slice(metadatas, top_k))

\* a slip: < for <=, which sends as many chunks as top_k to the model
FewEnoughStrict(len_chunks, top_k) == len_chunks < top_k

\* len(chunks) <= top_k
FewEnough(len_chunks, top_k) == len_chunks <= top_k

\* The answer of requests.post: an exception (raises), or a response with its
\* status_code, whether its body is JSON with a "response" key, and that text.
PostRaises(e) == [raises |-> e, status_code |-> 0, json |-> FALSE, text |-> <<>>]
PostStatus(code) == [raises |-> "", status_code |-> code, json |-> TRUE, text |-> <<>>]
PostNotJson == [raises |-> "", status_code |-> 200, json |-> FALSE, text |-> <<>>]
PostText(text) == [raises |-> "", status_code |-> 200, json |-> TRUE, text |-> text]

\* rerank_with_ollama; requests counts the calls of requests.post
RerankWithOllama(chunks, metadatas, top_k, response) ==
    IF Len(chunks) = 0 THEN [requests |-> 0, ret |-> Reranked(<<>>, <<>>)]
    ELSE IF FewEnough(Len(chunks), top_k)
    THEN [requests |-> 0, ret |-> Reranked(chunks, metadatas)]
    ELSE IF response.raises # ""
    THEN [requests |-> 1, ret |-> Fallback(chunks, metadatas, top_k)]
    ELSE IF response.status_code # 200
    THEN [requests |-> 1, ret |-> Fallback(chunks, metadatas, top_k)]
    ELSE IF ~response.json
    THEN [requests |-> 1, ret |-> Fallback(chunks, metadatas, top_k)]
    ELSE LET numbers == FindAllDigits(Strip(response.text)) IN
         IF numbers = <<>>
         THEN [requests |-> 1, ret |-> Fallback(chunks, metadatas, top_k)]
         ELSE LET ranked_indices ==
                      Fill(RankedIndices(Slice(numbers, top_k), Len(chunks), <<>>),
                           Len(chunks), top_k)
              IN [requests |-> 1,
                  ret |-> Reranked([i \in 1..Len(ranked_indices) |->
                                        chunks[ranked_indices[i] + 1]],
                                   [i \in 1..Len(ranked_indices) |->
                                        metadatas[ranked_indices[i] + 1]])]

\* rerank_chunks
RerankChunks(chunks, metadatas, top_k, method, response) ==
    IF method = NoneMethod THEN [requests |-> 0, ret |-> Fallback(chunks, metadatas, top_k)]
    ELSE IF method = Ollama THEN RerankWithOllama(chunks, metadatas, top_k, response)
    ELSE [requests |-> 0, ret |-> Raised("ValueError")]

\* the call rerank_chunks(query, chunks, metadatas, top_k, method)
Rerank ==
    /\ rr_last.op = "args"
    /\ LET r == RerankChunks(rr_last.chunks, rr_last.metadatas, rr_last.top_k,
                             rr_last.method, rr_last.response)
       IN rr_last' = [op |-> "rerank_chunks", chunks |-> rr_last.chunks,
                      metadatas |-> rr_last.metadatas, top_k |-> rr_last.top_k,
                      method |-> rr_last.method, response |-> rr_last.response,
                      requests |-> r.requests, ret |-> r.ret]

\* the retrieved chunks and their metadatas, n of them
ChunkList(n) == [i \in 1..n |-> <<"chunk", Digit(i)>>]
MetadataList(n) == [i \in 1..n |-> [source |-> <<"doc", Digit(i)>>]]

RespChars == {"0", "1", "2", "3", ","}

\* the texts a model may answer with
RespTexts == UNION {[1..n -> RespChars] : n \in 0..MaxRespLen}

Responses ==
    {PostRaises("Timeout"), PostRaises("ConnectionError"), PostStatus(500), PostNotJson}
    \cup {PostText(t) : t \in RespTexts}

RerankMethods == {Ollama, NoneMethod, <<"l", "l", "m">>}

InitRerank ==
    /\ NoQueryCache
    /\ similarity_threshold = Rat(1, 1) /\ max_cache_size = 1 /\ sc_cache = <<>>
    /\ sc_file = [state |-> "absent", data |-> <<>>] /\ sc_now = 0
    /\ sc_last = ScNoCall("init") /\ sc_lock = 0
    /\ NoHybridSearch
    /\ NoPipeline
    /\ \E n \in 0..MaxChunks, k \in 0..MaxTopK, m \in RerankMethods, r \in Responses :
          rr_last = [op |-> "args", chunks |-> ChunkList(n), metadatas |-> MetadataList(n),
                     top_k |-> k, method |-> m, response |-> r]

NextRerank ==
    \/ Rerank /\ UNCHANGED <<qcVars, threads, scVars, hs_last, qaVars>>

SpecRerank == InitRerank /\ [][NextRerank]_vars

----------------------------------------------------------------------------
(* Claims about rerank_chunks *)

\* the call went to a supported method
Supported == rr_last.method \in {Ollama, NoneMethod}

\* the first top_k candidates, or all of them when fewer, in their order
FirstTopK ==
    LET n == IF rr_last.top_k < Len(rr_last.chunks) THEN rr_last.top_k
             ELSE Len(rr_last.chunks)
    IN [chunks |-> [i \in 1..n |-> rr_last.chunks[i]],
        metadatas |-> [i \in 1..n |-> rr_last.metadatas[i]]]

\* C22: whatever the model answers (well-formed, malformed, numbers out of
\* range, a non-200 status, a raised error), rerank_chunks with more
\* candidates than top_k returns exactly top_k chunks and exactly top_k
\* metadatas, and the i-th metadata is that of the i-th returned chunk.
C22_ResultSize ==
    (rr_last.op = "rerank_chunks" /\ Supported /\ Len(rr_last.chunks) > rr_last.top_k) =>
        /\ rr_last.ret.kind = "value"
        /\ Len(rr_last.ret.value.chunks) = rr_last.top_k
        /\ Len(rr_last.ret.value.metadatas) = rr_last.top_k
        /\ \A i \in 1..rr_last.top_k :
              \E j \in 1..Len(rr_last.chunks) :
                 /\ rr_last.ret.value.chunks[i] = rr_last.chunks[j]
                 /\ rr_last.ret.value.metadatas[i] = rr_last.metadatas[j]

\* the model names one valid document and one out of range: the second place
\* is filled with the first remaining candidate
C22_Witness ==
    /\ rr_last.op = "rerank_chunks" /\ rr_last.method = Ollama
    /\ Len(rr_last.chunks) = 3 /\ rr_last.top_k = 2
    /\ rr_last.response = PostText(<<"3", ",", "0">>)
    /\ rr_last.requests = 1
    /\ rr_last.ret.value.chunks = <<rr_last.chunks[3], rr_last.chunks[1]>>
    /\ rr_last.ret.value.metadatas = <<rr_last.metadatas[3], rr_last.metadatas[1]>>

\* the backend call failed or its text holds no digit
BackendFailed ==
    \/ rr_last.response.raises # ""
    \/ rr_last.response.status_code # 200
    \/ ~rr_last.response.json
    \/ \A i \in 1..Len(rr_last.response.text) : ~IsDigit(rr_last.response.text[i])

\* C23: when the backend call raises, times out, answers with a non-200
\* status or with a text without digits, rerank_chunks does not raise and
\* returns the first top_k candidates in their original order; rerank_chunks
\* raises (ValueError) exactly for an unsupported method.
C23_FailureSemantics ==
    rr_last.op = "rerank_chunks" =>
        /\ (Supported /\ BackendFailed) => rr_last.ret = Returned(FirstTopK)
        /\ rr_last.ret.kind = "raise" <=> ~Supported
        /\ ~Supported => rr_last.ret = Raised("ValueError")

\* a timeout with three candidates and top_k = 2
C23_Witness ==
    /\ rr_last.op = "rerank_chunks" /\ rr_last.method = Ollama
    /\ Len(rr_last.chunks) = 3 /\ rr_last.top_k = 2
    /\ rr_last.response = PostRaises("Timeout")
    /\ rr_last.requests = 1
    /\ rr_last.ret.value.chunks = <<rr_last.chunks[1], rr_last.chunks[2]>>

\* C24: with method 'none', or with as many candidates as top_k or fewer,
\* rerank_chunks returns the first top_k candidates (all of them when fewer)
\* in their original order and makes no request to the language model.
C24_NoOpPath ==
    (/\ rr_last.op = "rerank_chunks"
     /\ \/ rr_last.method = NoneMethod
        \/ rr_last.method = Ollama /\ Len(rr_last.chunks) <= rr_last.top_k) =>
        /\ rr_last.ret = Returned(FirstTopK)
        /\ rr_last.requests = 0

\* 'ollama' with two candidates and top_k = 2
C24_Witness ==
    /\ rr_last.op = "rerank_chunks" /\ rr_last.method = Ollama
    /\ Len(rr_last.chunks) = 2 /\ rr_last.top_k = 2
    /\ rr_last.response = PostText(<<"2", ",", "1">>)
    /\ rr_last.requests = 0
    /\ rr_last.ret.value.chunks = rr_last.chunks

----------------------------------------------------------------------------
(* ask_question: the answering pipeline *)

MaxQaN == 2
MaxQaTime == 1
MaxRequests == 2

\* a slip: the total time is booked as search time as well
RecordQuerySearchToo(m, total_time, search_time, rerank_time, generation_time) ==
    [queries_count |-> m.queries_count + 1,
     total_time |-> m.total_time + total_time,
     search_time |-> m.search_time + search_time + total_time,
     rerank_time |-> m.rerank_time + rerank_time,
     generation_time |-> m.generation_time + generation_time]

\* PerformanceMonitor.record_query
RecordQuery(m, total_time, search_time, rerank_time, generation_time) ==
    [queries_count |-> m.queries_count + 1,
     total_time |-> m.total_time + total_time,
     search_time |-> m.search_time + search_time,
     rerank_time |-> m.rerank_time + rerank_time,
     generation_time |-> m.generation_time + generation_time]

\* what requests.post and the token stream give generate_answer_ollama
GenRaises(e) == [raises |-> e, status_code |-> 0, text |-> ""]
GenStatus(code) == [raises |-> "", status_code |-> code, text |-> ""]
GenText(text) == [raises |-> "", status_code |-> 200, text |-> text]

\* generate_answer_ollama in streaming mode: the answer text
GenerateAnswerOllama(outcome) ==
    CASE outcome.raises = "Timeout" -> "LLM connection timed out"
      [] outcome.raises = "ConnectionError" -> "Cannot connect to Ollama"
      [] outcome.raises \notin {"", "Timeout", "ConnectionError"} -> "Error: exception"
      [] outcome.raises = "" /\ outcome.status_code # 200 -> "Error: status"
      [] OTHER -> IF outcome.text = "" THEN "No response generated" ELSE outcome.text

\* a slip: an over-fetch of twice the final count
InitialCountDouble(n_results, use_reranking) ==
    IF use_reranking THEN n_results * 2 ELSE n_results

\* initial_n_results = n_results * 3 if use_reranking else n_results
InitialCount(n_results, use_reranking) ==
    IF use_reranking THEN n_results * 3 ELSE n_results

\* sorted(set(counts), reverse=True)
RECURSIVE SortedSetDesc(_)
SortedSetDesc(counts) ==
    IF counts = {} THEN <<>>
    ELSE LET m == CHOOSE x \in counts : \A y \in counts : y <= x
         IN <<m>> \o SortedSetDesc(counts \ {m})

\* a slip: the fallback list without the count 1
AttemptsWithoutOne(initial_n_results, n_results, domain) ==
    IF Truthy(domain) THEN SortedSetDesc({initial_n_results, n_results})
    ELSE <<initial_n_results>>

\* attempts: [initial, n_results, 1] without duplicates, largest first, for
\* a request with a domain; [initial] otherwise
Attempts(initial_n_results, n_results, domain) ==
    IF Truthy(domain) THEN SortedSetDesc({initial_n_results, n_results, 1})
    ELSE <<initial_n_results>>

\* search_method in ["hybrid", "bm25"]
UsesEngine(search_method) == search_method \in {Hybrid, Bm25}

\* the locals of a request that has not run yet
QaCall(question, n_results, domain, search_method, use_reranking, use_cache, requests) ==
    [pc |-> "call", question |-> question, n_results |-> n_results, domain |-> domain,
     search_method |-> search_method, use_reranking |-> use_reranking,
     use_cache |-> use_cache, start_time |-> 0, search_start |-> 0,
     attempts |-> <<>>, i |-> 0, chunks |-> <<>>, metadatas |-> <<>>,
     search_time |-> 0, rerank_time |-> 0, gen_time |-> 0, answer |-> "",
     result |-> PyNone, trace |-> <<>>, ret |-> PyNone, requests |-> requests]

\* a slip: the signature without the requested count
QaSigDefaultCount == Sig(qa.question, qa.domain, qa.search_method, 3)

\* a slip: the reranking flag is made part of the signature
QaSigWithFlag ==
    Sig(qa.question, qa.domain,
        qa.search_method \o (IF qa.use_reranking THEN <<"+", "r">> ELSE <<>>),
        qa.n_results)

\* the signature the exact cache is asked with
QaSig == Sig(qa.question, qa.domain, qa.search_method, qa.n_results)

\* history: a stage of the pipeline that ran, what it was called with and how
\* it ended
Stage(name, n, result) == [stage |-> name, n |-> n, result |-> result]

\* history: the stores whose key has left the cache are marked
StillStored(st, c) ==
    [i \in 1..Len(st) |-> [st[i] EXCEPT !.stored = @ /\ HasKey(c, MakeKey(st[i].sig))]]

\* ask_question is entered: start_time = time.time(), cache and monitor
QaEnter ==
    /\ qa.pc = "call"
    /\ qa' = [qa EXCEPT !.pc = "probe", !.start_time = now]
    /\ UNCHANGED <<qcVars, threads, monitor, stores>>

\* ask_question from the cache probe to the retrieval loop; on a hit the
\* metrics and the return
QaProbe ==
    /\ qa.pc = "probe"
    /\ IF qa.use_cache
       THEN /\ Get(QaSig)
            /\ IF lastOp'.path = "hit"
               THEN /\ monitor' = RecordQuery(monitor, now - qa.start_time, 0, 0, 0)
                    /\ qa' = [qa EXCEPT !.pc = "done",
                                        !.trace = <<Stage("cache.get", 0, lastOp'.path),
                                                    Stage("record_query", 0, "ok")>>,
                                        !.ret = Returned(lastOp'.ret)]
               ELSE /\ monitor' = monitor
                    /\ qa' = [qa EXCEPT !.pc = "retrieve",
                                        !.search_start = now,
                                        !.attempts =
                                            Attempts(InitialCount(qa.n_results,
                                                                  qa.use_reranking),
                                                     qa.n_results, qa.domain),
                                        !.i = 1,
                                        !.trace = <<Stage("cache.get", 0, lastOp'.path)>>]
       ELSE /\ UNCHANGED <<qcVars, threads, monitor>>
            /\ qa' = [qa EXCEPT !.pc = "retrieve",
                                !.search_start = now,
                                !.attempts =
                                    Attempts(InitialCount(qa.n_results, qa.use_reranking),
                                             qa.n_results, qa.domain),
                                !.i = 1]
    /\ stores' = StillStored(stores, cache')

\* what one retrieval attempt gives: a number of chunks, or an error that is
\* or is not an index-size error (is_size_error)
Retrieved(count) == [kind |-> "chunks", count |-> count, size |-> FALSE]
RetrievalError(is_size_error) == [kind |-> "error", count |-> 0, size |-> is_size_error]

\* the exceptions ask_question raises
NoResultsFound == Raised([type |-> "Exception", message |-> "No results found"])
CannotRetrieve == Raised([type |-> "Exception", message |-> "Cannot retrieve documents"])
Reraised(is_size_error) ==
    Raised([type |-> "retrieval error",
            message |-> IF is_size_error THEN "hnsw" ELSE "other"])

\* a slip: the empty retrieval goes on to the generation
NoChunksNever(len_chunks) == FALSE

\* len(chunks) == 0
NoChunks(len_chunks) == len_chunks = 0

\* one pass of the retrieval loop, and after a success the checks up to the
\* stage that follows; dt is the time the retrieval took
QaRetrieve(outcome, dt) ==
    LET attempt_n == qa.attempts[qa.i]
        via == IF UsesEngine(qa.search_method) THEN "engine.search"
               ELSE "query_similar_chunks"
        trace ==
            Append(qa.trace,
                   Stage(via, attempt_n,
                         IF outcome.kind = "chunks" THEN "chunks"
                         ELSE IF outcome.size THEN "size error" ELSE "other error"))
    IN
    /\ qa.pc = "retrieve"
    /\ now + dt <= MaxQaTime
    /\ now' = now + dt
    /\ outcome.kind = "chunks" => outcome.count <= attempt_n
    /\ qa' =
        IF outcome.kind = "chunks"
        THEN IF NoChunks(outcome.count)
             THEN [qa EXCEPT !.pc = "done", !.trace = trace,
                             !.search_time = now' - qa.search_start,
                             !.ret = NoResultsFound]
             ELSE [qa EXCEPT !.pc = IF qa.use_reranking /\ outcome.count > qa.n_results
                                    THEN "rerank" ELSE "generate",
                             !.trace = trace,
                             !.chunks = ChunkList(outcome.count),
                             !.metadatas = MetadataList(outcome.count),
                             !.search_time = now' - qa.search_start]
        ELSE IF outcome.size /\ qa.i < Len(qa.attempts)
             THEN [qa EXCEPT !.i = qa.i + 1, !.trace = trace]
             ELSE IF qa.i = Len(qa.attempts)
             THEN [qa EXCEPT !.pc = "done", !.trace = trace, !.ret = CannotRetrieve]
             ELSE [qa EXCEPT !.pc = "done", !.trace = trace,
                             !.ret = Reraised(outcome.size)]
    /\ UNCHANGED <<max_size, ttl_seconds, cache, hits, misses, evictions, recency,
                   getCalls, lastOp, threads, monitor, stores>>

\* Step 1.5: rerank_chunks(question, chunks, metadatas, n_results, "ollama")
QaRerank(response, dt) ==
    LET r == RerankChunks(qa.chunks, qa.metadatas, qa.n_results, Ollama, response) IN
    /\ qa.pc = "rerank"
    /\ now + dt <= MaxQaTime
    /\ now' = now + dt
    /\ qa' = [qa EXCEPT !.pc = "generate",
                        !.trace = Append(qa.trace, Stage("rerank_chunks", qa.n_results, "ok")),
                        !.chunks = r.ret.value.chunks,
                        !.metadatas = r.ret.value.metadatas,
                        !.rerank_time = dt]
    /\ UNCHANGED <<max_size, ttl_seconds, cache, hits, misses, evictions, recency,
                   getCalls, lastOp, threads, monitor, stores>>

\* Step 2: generate_answer_ollama(question, chunks)
QaGenerate(outcome, dt) ==
    /\ qa.pc = "generate"
    /\ now + dt <= MaxQaTime
    /\ now' = now + dt
    /\ qa' = [qa EXCEPT !.pc = "format",
                        !.trace = Append(qa.trace,
                                         Stage("generate_answer_ollama", Len(qa.chunks),
                                               IF outcome.raises # "" THEN outcome.raises
                                               ELSE IF outcome.status_code # 200
                                               THEN "status" ELSE "ok")),
                        !.answer = GenerateAnswerOllama(outcome),
                        !.gen_time = dt]
    /\ UNCHANGED <<max_size, ttl_seconds, cache, hits, misses, evictions, recency,
                   getCalls, lastOp, threads, monitor, stores>>

\* a slip: a source for the first chunk only
SourcesFirstOnly(chunks, metadatas) ==
    [i \in 1..(IF Len(metadatas) > 1 THEN 1 ELSE Len(metadatas)) |->
        [source |-> metadatas[i].source, source_type |-> "pdf",
         chunk_preview |-> chunks[i]]]

\* the sources list: one source_info for every metadata
Sources(chunks, metadatas) ==
    [i \in 1..Len(metadatas) |->
        [source |-> metadatas[i].source, source_type |-> "pdf",
         chunk_preview |-> chunks[i]]]

\* Step 3: the sources and the result dict
QaFormat ==
    /\ qa.pc = "format"
    /\ qa' = [qa EXCEPT !.pc = "store",
                        !.trace = Append(qa.trace, Stage("format", Len(qa.metadatas), "ok")),
                        !.result = [question |-> qa.question, answer |-> qa.answer,
                                    sources |-> Sources(qa.chunks, qa.metadatas),
                                    retrieved_chunks |-> qa.chunks]]
    /\ UNCHANGED <<qcVars, threads, monitor, stores>>

\* a slip: a result whose answer is a failure message is not stored
QaStoreSkipsFailures ==
    /\ qa.pc = "store"
    /\ IF qa.use_cache /\ qa.answer \in {"A1", "A2", "No response generated"}
       THEN /\ Set(QaSig, qa.result)
            /\ stores' = Append(StillStored(stores, cache'),
                                 [sig |-> QaSig, result |-> qa.result, time |-> now,
                                  stored |-> TRUE,
                                  request |-> Sig(qa.question, qa.domain,
                                                  qa.search_method, qa.n_results),
                                  use_reranking |-> qa.use_reranking])
            /\ qa' = [qa EXCEPT !.pc = "metrics",
                                !.trace = Append(qa.trace, Stage("cache.set", 0, "ok"))]
       ELSE /\ UNCHANGED <<qcVars, threads, stores>>
            /\ qa' = [qa EXCEPT !.pc = "metrics"]
    /\ UNCHANGED monitor

\* if use_cache: cache.set(question, result, domain, method, n_results)
QaStore ==
    /\ qa.pc = "store"
    /\ IF qa.use_cache
       THEN /\ Set(QaSig, qa.result)
            /\ stores' = Append(StillStored(stores, cache'),
                                 [sig |-> QaSig, result |-> qa.result, time |-> now,
                                  stored |-> TRUE,
                                  request |-> Sig(qa.question, qa.domain,
                                                  qa.search_method, qa.n_results),
                                  use_reranking |-> qa.use_reranking])
            /\ qa' = [qa EXCEPT !.pc = "metrics",
                                !.trace = Append(qa.trace, Stage("cache.set", 0, "ok"))]
       ELSE /\ UNCHANGED <<qcVars, threads, stores>>
            /\ qa' = [qa EXCEPT !.pc = "metrics"]
    /\ UNCHANGED monitor

\* monitor.record_query(total, search, rerank, generation) and the return
QaMetrics ==
    /\ qa.pc = "metrics"
    /\ monitor' = RecordQuery(monitor, now - qa.start_time, qa.search_time,
                              qa.rerank_time, qa.gen_time)
    /\ qa' = [qa EXCEPT !.pc = "done",
                        !.trace = Append(qa.trace, Stage("record_query", 0, "ok")),
                        !.ret = Returned(qa.result)]
    /\ UNCHANGED <<qcVars, threads, stores>>

\* the caller sends the next request
QaNextRequest(question, n_results, domain, search_method, use_reranking, use_cache) ==
    /\ qa.pc = "done"
    /\ qa.requests < MaxRequests
    /\ qa' = QaCall(question, n_results, domain, search_method, use_reranking,
                    use_cache, qa.requests + 1)
    /\ UNCHANGED <<qcVars, threads, monitor, stores>>

\* time passes between two requests, and before the cache is asked
QaTick ==
    /\ qa.pc \in {"done", "probe"}
    /\ now < MaxQaTime
    /\ now' = now + 1
    /\ UNCHANGED <<max_size, ttl_seconds, cache, hits, misses, evictions, recency,
                   getCalls, lastOp, threads, qa, monitor, stores>>

\* get_query_cache(): the cache of the process, empty at first
NewQueryCache(max, ttl) ==
    /\ max_size = max
    /\ ttl_seconds = ttl
    /\ cache = <<>>
    /\ hits = 0
    /\ misses = 0
    /\ evictions = 0
    /\ now = 0
    /\ recency = <<>>
    /\ getCalls = 0
    /\ lastOp = NoCall("init")

\* what the pipeline does not use
QaRest ==
    /\ threads = <<>>
    /\ similarity_threshold = Rat(1, 1) /\ max_cache_size = 1 /\ sc_cache = <<>>
    /\ sc_file = [state |-> "absent", data |-> <<>>] /\ sc_now = 0
    /\ sc_last = ScNoCall("init") /\ sc_lock = 0
    /\ NoHybridSearch
    /\ NoReranker
    /\ monitor = NewMonitor
    /\ stores = <<>>
    /\ NoIndex

Question == <<"q">>

QaDomains == {None, <<>>, Automotive}

QaMethods == {Semantic, Bm25, Hybrid, <<"r", "r", "f">>}

RetrievalOutcomes ==
    {Retrieved(k) : k \in 0..(3 * MaxQaN)} \cup {RetrievalError(TRUE), RetrievalError(FALSE)}

QaResponses == {PostRaises("Timeout"), PostText(<<"2">>), PostText(<<",">>)}

GenOutcomes ==
    {GenRaises("Timeout"), GenRaises("ConnectionError"), GenStatus(500),
     GenText("A1"), GenText("")}

\* one request, of every kind
InitQA ==
    /\ NewQueryCache(1, 1)
    /\ QaRest
    /\ \E n \in 1..MaxQaN, d \in QaDomains, m \in QaMethods, r \in BOOLEAN, c \in BOOLEAN :
          qa = QaCall(Question, n, d, m, r, c, 1)

NextQA ==
    \/ QaEnter /\ UNCHANGED <<scVars, hs_last, rr_last, ixVars>>
    \/ QaProbe /\ UNCHANGED <<scVars, hs_last, rr_last, ixVars>>
    \/ \E o \in RetrievalOutcomes, dt \in 0..MaxQaTime :
          QaRetrieve(o, dt) /\ UNCHANGED <<scVars, hs_last, rr_last, ixVars>>
    \/ \E r \in QaResponses, dt \in 0..MaxQaTime :
          QaRerank(r, dt) /\ UNCHANGED <<scVars, hs_last, rr_last, ixVars>>
    \/ \E g \in GenOutcomes, dt \in 0..MaxQaTime :
          QaGenerate(g, dt) /\ UNCHANGED <<scVars, hs_last, rr_last, ixVars>>
    \/ QaFormat /\ UNCHANGED <<scVars, hs_last, rr_last, ixVars>>
    \/ QaStore /\ UNCHANGED <<scVars, hs_last, rr_last, ixVars>>
    \/ QaMetrics /\ UNCHANGED <<scVars, hs_last, rr_last, ixVars>>
    \/ QaTick /\ UNCHANGED <<scVars, hs_last, rr_last, ixVars>>

SpecQA == InitQA /\ [][NextQA]_vars

\* the text 'None' as a domain
NoneText == <<"N", "o", "n", "e">>

CacheRetrievals == {Retrieved(1), Retrieved(2)}

CacheGenOutcomes == {GenText("A1"), GenText("A2")}

\* the lifetimes of a cache entry: expiring within the run and outliving it
QaTtls == {1, 2}

\* no domain, the text 'None' (which shares its key), and a domain of the corpus
CacheDomains == {None, NoneText, Automotive}

\* several requests of a few kinds, one after the other; reranking is on and
\* runs when the retrieval gives more than one chunk
InitQACache ==
    /\ \E ttl \in QaTtls : NewQueryCache(1, ttl)
    /\ QaRest
    /\ \E d \in CacheDomains, c \in BOOLEAN :
          qa = QaCall(Question, 1, d, Hybrid, TRUE, c, 1)

NextQACache ==
    \/ QaEnter /\ UNCHANGED <<scVars, hs_last, rr_last, ixVars>>
    \/ QaProbe /\ UNCHANGED <<scVars, hs_last, rr_last, ixVars>>
    \/ \E o \in CacheRetrievals, dt \in 0..MaxQaTime :
          QaRetrieve(o, dt) /\ UNCHANGED <<scVars, hs_last, rr_last, ixVars>>
    \/ QaRerank(PostText(<<"2">>), 0) /\ UNCHANGED <<scVars, hs_last, rr_last, ixVars>>
    \/ \E g \in CacheGenOutcomes :
          QaGenerate(g, 0) /\ UNCHANGED <<scVars, hs_last, rr_last, ixVars>>
    \/ QaFormat /\ UNCHANGED <<scVars, hs_last, rr_last, ixVars>>
    \/ QaStore /\ UNCHANGED <<scVars, hs_last, rr_last, ixVars>>
    \/ QaMetrics /\ UNCHANGED <<scVars, hs_last, rr_last, ixVars>>
    \/ QaTick /\ UNCHANGED <<scVars, hs_last, rr_last, ixVars>>
    \/ \E d \in CacheDomains, c \in BOOLEAN :
          QaNextRequest(Question, 1, d, Hybrid, TRUE, c)
             /\ UNCHANGED <<scVars, hs_last, rr_last, ixVars>>

SpecQACache == InitQACache /\ [][NextQACache]_vars

----------------------------------------------------------------------------
(* Claims about ask_question *)

\* the stages of a trace that carry one of the names
StagesOf(trace, names) == SelectSeq(trace, LAMBDA s : s.stage \in names)

RetrievalStages == {"engine.search", "query_similar_chunks"}

\* the request's own signature
RequestSig == [query |-> qa.question, domain |-> qa.domain,
               method |-> qa.search_method, n_results |-> qa.n_results]

\* the step in which ask_question asks the exact cache
ProbeStep == qa.pc = "probe" /\ qa'.pc # "probe"

\* the entries of a cache, whatever their order
EntriesOf(c) == {[sig |-> c[i].sig, data |-> c[i].data, timestamp |-> c[i].timestamp] :
                    i \in 1..Len(c)}

C25_HitStep ==
    (ProbeStep /\ qa.use_cache) =>
        \A i \in 1..Len(cache) :
            (cache[i].sig = RequestSig /\ now - cache[i].timestamp < ttl_seconds) =>
                /\ qa'.pc = "done"
                /\ qa'.ret = Returned(cache[i].data)
                /\ StagesOf(qa'.trace, RetrievalStages \cup
                               {"rerank_chunks", "generate_answer_ollama", "cache.set"}) = <<>>
                /\ EntriesOf(cache') = EntriesOf(cache)
                /\ Len(stores') = Len(stores)
                /\ monitor' = [queries_count |-> monitor.queries_count + 1,
                               total_time |-> monitor.total_time + (now - qa.start_time),
                               search_time |-> monitor.search_time,
                               rerank_time |-> monitor.rerank_time,
                               generation_time |-> monitor.generation_time]

\* C25: when ask_question runs with use_cache and the exact cache holds an
\* unexpired entry for (question, domain, search_method, n_results), it
\* returns that entry's result, runs no retrieval, no reranking and no
\* generation, writes nothing to the cache, and records one query whose total
\* time is the elapsed time and whose search, rerank and generation times are 0.
C25_CacheHit == [][C25_HitStep]_vars

\* a second request answered from the cache one second after it came in
C25_Witness ==
    /\ qa.pc = "done" /\ qa.requests = 2 /\ qa.use_cache
    /\ Len(qa.trace) = 2 /\ qa.trace[1].result = "hit"
    /\ qa.ret.kind = "value" /\ qa.ret.value.answer = "A1"
    /\ now - qa.start_time = 1
    /\ monitor.queries_count = 2 /\ monitor.total_time = 1 /\ monitor.search_time = 0
    /\ Len(stores) = 1

\* the place of a stage in the pipeline
StageRank(name) ==
    CASE name = "cache.get" -> 0
      [] name \in RetrievalStages -> 1
      [] name = "rerank_chunks" -> 2
      [] name = "generate_answer_ollama" -> 3
      [] name = "format" -> 4
      [] name = "cache.set" -> 5
      [] name = "record_query" -> 6

\* the stages ran in the pipeline's order, none but the retrieval twice
InOrder(trace) ==
    \A i, j \in 1..Len(trace) :
        i < j => \/ StageRank(trace[i].stage) < StageRank(trace[j].stage)
                 \/ trace[i].stage \in RetrievalStages /\ trace[j].stage = trace[i].stage

\* a request that missed the cache and came to its end with a result
Completed(q) ==
    /\ q.pc = "done" /\ q.ret.kind = "value"
    /\ StagesOf(q.trace, {"generate_answer_ollama"}) # <<>>

\* the last store made for the signature, if there is one
LastStoreOf(sig) ==
    LET idx == {i \in 1..Len(stores) : stores[i].sig = sig} IN
    IF idx = {} THEN 0 ELSE CHOOSE i \in idx : \A j \in idx : j <= i

C26_Step ==
    /\ InOrder(qa'.trace)
    /\ Completed(qa') =>
          /\ StagesOf(qa'.trace, RetrievalStages) # <<>>
          /\ Len(StagesOf(qa'.trace, {"generate_answer_ollama"})) = 1
          /\ Len(StagesOf(qa'.trace, {"format"})) = 1
          /\ Len(StagesOf(qa'.trace, {"record_query"})) = 1
          /\ Len(StagesOf(qa'.trace, {"rerank_chunks"})) <= 1
          /\ Len(StagesOf(qa'.trace, {"cache.set"})) = (IF qa'.use_cache THEN 1 ELSE 0)
    /\ EntriesOf(cache') \ EntriesOf(cache) # {} =>
          /\ qa.pc = "store" /\ qa.use_cache
          /\ StagesOf(qa.trace, {"generate_answer_ollama"}) # <<>>
          /\ qa.result.answer = qa.answer
          /\ EntriesOf(cache') \ EntriesOf(cache) =
                {[sig |-> RequestSig, data |-> qa.result, timestamp |-> now]}
    /\ (qa.pc = "store" /\ qa'.pc # "store" /\ qa.use_cache) =>
          \E i \in 1..Len(cache') : /\ cache'[i].sig = RequestSig
                                    /\ cache'[i].data = qa.result
    /\ (ProbeStep /\ qa.use_cache /\ LastStoreOf(RequestSig) # 0) =>
          LET s == stores[LastStoreOf(RequestSig)] IN
          (s.stored /\ now - s.time < ttl_seconds) =>
              /\ lastOp'.path = "hit"
              /\ qa'.pc = "done"
              /\ qa'.ret = Returned(s.result)

\* C26: on a cache miss the stages run in the order retrieve, rerank (when it
\* runs), generate, source formatting, cache store, metrics, one after the
\* other; the cache is written only by the store stage, after the generation
\* returned, with the result under the request's (question, domain,
\* search_method, n_results); an identical later request with use_cache,
\* before that entry expired or was evicted, is a hit that returns the result.
C26_StageOrderAndStore == [][C26_Step]_vars

\* a reranked request stored its result; the same request then hit the cache
C26_Witness ==
    /\ qa.pc = "done" /\ qa.requests = 2 /\ qa.use_cache
    /\ Len(qa.trace) = 2 /\ qa.trace[1].result = "hit"
    /\ Len(stores) = 1 /\ stores[1].sig = RequestSig /\ stores[1].stored
    /\ qa.ret = Returned(stores[1].result)
    /\ Len(stores[1].result.retrieved_chunks) = 1
    /\ stores[1].result.retrieved_chunks[1] = <<"chunk", "2">>


\* the retrieval attempts of the running request
RetrievalsOf(trace) == StagesOf(trace, RetrievalStages)

\* the request names a domain
HasDomainFilter == qa.domain \notin {None, <<>>}

\* the counts the fallback may try: the initial count, n_results and 1
FallbackCounts ==
    {IF qa.use_reranking THEN 3 * qa.n_results ELSE qa.n_results, qa.n_results, 1}

\* C27: for a request with a domain filter the counts of the retrieval
\* attempts are strictly decreasing and taken from [initial count, n_results,
\* 1], starting with the initial count; an attempt is followed by another
\* only when it failed with an index-size error; there are at most three
\* attempts and the loop never waits without a count left to try; a size
\* error reaches the caller only after every count, the smallest included,
\* has failed.
C27_Fallback ==
    (HasDomainFilter /\ qa.pc # "call") =>
        LET r == RetrievalsOf(qa.trace) IN
        /\ Len(r) <= 3
        /\ \A i \in 1..Len(r) : r[i].n \in FallbackCounts
        /\ \A i, j \in 1..Len(r) : i < j => r[i].n > r[j].n
        /\ r # <<>> => \A c \in FallbackCounts : c <= r[1].n
        /\ \A i \in 1..Len(r) : i < Len(r) => r[i].result = "size error"
        /\ qa.pc = "retrieve" => Len(r) < Cardinality(FallbackCounts)
        /\ (qa.pc = "done" /\ qa.ret.kind = "raise" /\ r # <<>>
                /\ r[Len(r)].result = "size error") =>
              /\ r[Len(r)].n = 1
              /\ {r[i].n : i \in 1..Len(r)} = FallbackCounts

\* 6, 2 and 1 chunks were asked for, each attempt hit the size error
C27_Witness ==
    /\ qa.pc = "done" /\ qa.domain = Automotive /\ qa.n_results = 2 /\ qa.use_reranking
    /\ Len(RetrievalsOf(qa.trace)) = 3
    /\ RetrievalsOf(qa.trace)[1].n = 6
    /\ RetrievalsOf(qa.trace)[2].n = 2
    /\ RetrievalsOf(qa.trace)[3].n = 1
    /\ RetrievalsOf(qa.trace)[3].result = "size error"
    /\ qa.ret = CannotRetrieve

\* the answers generate_answer_ollama gives when the backend fails
DegradedMessages == {"LLM connection timed out", "Cannot connect to Ollama", "Error: status"}

\* the generation of the running request failed
GenerationFailed ==
    \E i \in 1..Len(qa.trace) :
        /\ qa.trace[i].stage = "generate_answer_ollama"
        /\ qa.trace[i].result \in {"Timeout", "ConnectionError", "status"}

\* C28: when the generation backend times out, refuses the connection or
\* answers with a non-200 status, ask_question does not raise: it returns a
\* result whose answer is a degraded-service message and whose sources hold
\* one entry for every retrieved chunk, in the chunks' order.
C28_GenerationFailure ==
    GenerationFailed =>
        /\ qa.ret.kind # "raise"
        /\ qa.pc \in {"format", "store", "metrics", "done"}
        /\ qa.pc = "done" =>
              /\ qa.ret.kind = "value"
              /\ qa.ret.value.answer \in DegradedMessages
              /\ Len(qa.ret.value.retrieved_chunks) >= 1
              /\ Len(qa.ret.value.sources) = Len(qa.ret.value.retrieved_chunks)
              /\ \A i \in 1..Len(qa.ret.value.sources) :
                    /\ qa.ret.value.sources[i].chunk_preview =
                          qa.ret.value.retrieved_chunks[i]
                    /\ qa.ret.value.sources[i].source =
                          <<"doc", qa.ret.value.retrieved_chunks[i][2]>>

\* two chunks retrieved, the generation timed out
C28_Witness ==
    /\ qa.pc = "done" /\ GenerationFailed
    /\ qa.ret.kind = "value"
    /\ qa.ret.value.answer = "LLM connection timed out"
    /\ Len(qa.ret.value.retrieved_chunks) = 2
    /\ Len(qa.ret.value.sources) = 2

\* C29: ask_question with a search_method other than 'semantic', 'bm25' and
\* 'hybrid' fails fast with an invalid-argument error: it makes no retrieval
\* attempt, with no count at all, gives no answer and leaves no cache entry.
C29_InvalidMethod ==
    qa.search_method \notin {Semantic, Bm25, Hybrid} =>
        /\ RetrievalsOf(qa.trace) = <<>>
        /\ StagesOf(qa.trace, {"generate_answer_ollama", "cache.set"}) = <<>>
        /\ qa.pc \in {"call", "probe", "done"}
        /\ qa.pc = "done" => qa.ret.kind = "raise"
        /\ cache = <<>>

\* the last retrieval attempt succeeded and gave no chunk
RetrievedNothing ==
    LET r == RetrievalsOf(qa.trace) IN
    /\ r # <<>>
    /\ r[Len(r)].result = "chunks"
    /\ qa.chunks = <<>>

\* C30: when the retrieval succeeds with zero chunks ask_question ends with
\* its no-results outcome, which no retrieval failure gives; it runs neither
\* the reranker nor the generator and writes nothing to the exact cache.
C30_EmptyResult ==
    /\ RetrievedNothing =>
          /\ qa.pc = "done"
          /\ qa.ret = NoResultsFound
          /\ StagesOf(qa.trace, {"rerank_chunks", "generate_answer_ollama",
                                 "format", "cache.set"}) = <<>>
          /\ cache = <<>>
          /\ stores = <<>>
    /\ qa.ret = NoResultsFound => RetrievedNothing
    /\ NoResultsFound # CannotRetrieve
    /\ \A b \in BOOLEAN : NoResultsFound # Reraised(b)

\* the count 3 was too large, the count 1 gave no chunk
C30_Witness ==
    /\ qa.pc = "done" /\ qa.ret = NoResultsFound /\ qa.use_cache
    /\ Len(RetrievalsOf(qa.trace)) = 2
    /\ RetrievalsOf(qa.trace)[1].result = "size error"
    /\ RetrievalsOf(qa.trace)[2].n = 1
    /\ RetrievalsOf(qa.trace)[2].result = "chunks"
    /\ cache = <<>>

----------------------------------------------------------------------------
(* Further claims about rerank_with_ollama *)

\* the model was asked and its text holds at least one integer
ModelAnswered ==
    /\ rr_last.op = "rerank_chunks" /\ rr_last.method = Ollama
    /\ rr_last.requests = 1 /\ ~BackendFailed

\* the 0-based positions named by the in-range integers of the whole
\* response, in the order the response lists them
InRangeOfResponse ==
    LET numbers == FindAllDigits(rr_last.response.text) IN
    SelectSeq([i \in 1..Len(numbers) |-> PyInt(numbers[i]) - 1],
              LAMBDA idx : 0 <= idx /\ idx < Len(rr_last.chunks))

\* C31: for a response containing integers, the output starts with the
\* candidates named by the in-range 1-based indices of the response, in the
\* order the response lists them (out-of-range indices are discarded wherever
\* they occur), and the padding with the not-yet-selected candidates in their
\* original order happens only when the whole response contains fewer than
\* top_k in-range indices.
C31_IndexSelection ==
    ModelAnswered =>
        LET named == Slice(InRangeOfResponse, rr_last.top_k)
            out == rr_last.ret.value.chunks
        IN /\ Len(out) >= Len(named)
           /\ \A i \in 1..Len(named) : out[i] = rr_last.chunks[named[i] + 1]
           /\ Len(InRangeOfResponse) >= rr_last.top_k => Len(out) = Len(named)
           /\ Len(InRangeOfResponse) < rr_last.top_k =>
                 LET rest == Remaining(Len(rr_last.chunks), named) IN
                 \A i \in (Len(named) + 1)..Len(out) :
                    out[i] = rr_last.chunks[rest[i - Len(named)] + 1]

\* C35: for every model response, the chunks returned by rerank_with_ollama
\* come from pairwise distinct candidate positions: no candidate is returned
\* twice, even when the response repeats an index.
C35_Distinct ==
    (rr_last.op = "rerank_chunks" /\ rr_last.method = Ollama) =>
        \A i, j \in 1..Len(rr_last.ret.value.chunks) :
           rr_last.ret.value.chunks[i] = rr_last.ret.value.chunks[j] => i = j

----------------------------------------------------------------------------
(* The lexical index and the corpus: the API's hybrid_engine and the engine
   that ask_question keeps *)

MaxIxN == 1

\* HybridSearchEngine(collection): _build_bm25_index reads every stored chunk
BuildEngine(coll) == [built |-> TRUE, all_ids |-> coll]

\* a ranking of the whole corpus cut down to the chunks an index holds
Held(ranking, ids) == SelectSeq(ranking, LAMBDA id : id \in ids)

\* engine.search: semantic_search queries the collection as it is now,
\* bm25_search scores the chunks the engine read when it was built
EngineSearch(engine, coll, n_results, domain, method, sem, bm) ==
    LET branch == Branch(method)
        retrieval_count == RetrievalCount(n_results)
    IN CASE branch = "semantic" ->
                Returned(SemanticSearch(Held(sem, coll), n_results, domain))
         [] branch = "bm25" ->
                Returned(Bm25Search(Held(bm, engine.all_ids), n_results, domain))
         [] branch = "hybrid" ->
                Returned(Take(ReciprocalRankFusion(
                                 SemanticSearch(Held(sem, coll), retrieval_count, domain),
                                 Bm25Search(Held(bm, engine.all_ids), retrieval_count,
                                            domain),
                                 RrfK),
                              n_results))
         [] OTHER -> Raised("ValueError")

\* query_similar_chunks(collection, ...)
QuerySimilarChunks(coll, n_results, domain, sem) ==
    Returned(SemanticSearch(Held(sem, coll), n_results, domain))

\* what a retrieval leaves in the history
Retrieval(op, n_results, domain, method, engine, ret) ==
    [op |-> op, n_results |-> n_results, domain |-> domain, method |-> method,
     all_ids |-> engine.all_ids, corpus |-> collection, ret |-> ret]

\* hybrid_engine = HybridSearchEngine(collection) after a corpus change
RebuildEngine(engine, coll) == BuildEngine(coll)

\* upload_document: the chunks of the file are added to the collection and
\* the API's engine is rebuilt; a file without documents changes nothing
UploadDocument(domain, ids) ==
    /\ ids \subseteq {id \in CorpusIds : DomainOf(id) = domain} \ collection
    /\ IF ids = {}
       THEN /\ ix_last' = [op |-> "upload", ret |-> Raised("HTTP 500")]
            /\ UNCHANGED <<collection, hybrid_engine>>
       ELSE /\ collection' = collection \cup ids
            /\ hybrid_engine' = RebuildEngine(hybrid_engine, collection')
            /\ ix_last' = [op |-> "upload", ret |-> Returned(ids)]
    /\ UNCHANGED ask_engine

\* delete_domain: 404 for a domain without chunks; otherwise its chunks leave
\* the collection and the API's engine is rebuilt.  The deletion of the last
\* domain is left out: what BM25Okapi does with no document is the library's.
DeleteDomain(domain) ==
    LET doc_ids == {id \in collection : DomainOf(id) = domain} IN
    /\ collection \ doc_ids # {}
    /\ IF doc_ids = {}
       THEN /\ ix_last' = [op |-> "delete", ret |-> Raised("HTTP 404")]
            /\ UNCHANGED <<collection, hybrid_engine>>
       ELSE /\ collection' = collection \ doc_ids
            /\ hybrid_engine' = RebuildEngine(hybrid_engine, collection')
            /\ ix_last' = [op |-> "delete", ret |-> Returned(doc_ids)]
    /\ UNCHANGED ask_engine

\* search_documents: 'hybrid' and 'bm25' go to the API's engine
SearchDocuments(n_results, domain, method, sem, bm) ==
    /\ ix_last' =
          Retrieval("search_documents", n_results, domain, method, hybrid_engine,
                    IF method \in {Hybrid, Bm25}
                    THEN EngineSearch(hybrid_engine, collection, n_results, domain,
                                      method, sem, bm)
                    ELSE QuerySimilarChunks(collection, n_results, domain, sem))
    /\ UNCHANGED <<collection, hybrid_engine, ask_engine>>

\* query_documents: the streaming branch retrieves with the API's engine; the
\* other branch calls ask_question with stream=False, a parameter ask_question
\* does not have, and the TypeError becomes HTTP 500
QueryDocuments(stream, n_results, domain, method, sem, bm) ==
    /\ ix_last' =
          IF stream
          THEN Retrieval("query_documents", n_results, domain, method, hybrid_engine,
                         IF method \in {Hybrid, Bm25}
                         THEN EngineSearch(hybrid_engine, collection, n_results, domain,
                                           method, sem, bm)
                         ELSE QuerySimilarChunks(collection, n_results, domain, sem))
          ELSE [op |-> "query_documents", ret |-> Raised("HTTP 500")]
    /\ UNCHANGED <<collection, hybrid_engine, ask_engine>>

\* the retrieval of ask_question(collection, question, n_results,
\* filter_metadata, search_method): the engine is built on the first 'hybrid'
\* or 'bm25' call and kept in ask_question._hybrid_engine from then on
AskQuestionRetrieve(n_results, domain, method, sem, bm) ==
    /\ ask_engine' =
          IF method \in {Hybrid, Bm25} /\ ~ask_engine.built
          THEN BuildEngine(collection) ELSE ask_engine
    /\ ix_last' =
          Retrieval("ask_question", n_results, domain, method, ask_engine',
                    IF method \in {Hybrid, Bm25}
                    THEN EngineSearch(ask_engine', collection, n_results, domain,
                                      method, sem, bm)
                    ELSE QuerySimilarChunks(collection, n_results, domain, sem))
    /\ UNCHANGED <<collection, hybrid_engine>>

IxMethods == {Semantic, Bm25, Hybrid}

\* a retrieval over every domain, or over one
IxDomains == {None, Automotive}

\* two orders in which an index may rank the corpus, one the reverse of the other
IxRankings == {<<"A", "B", "C", "D">>, <<"D", "C", "B", "A">>}

\* startup_event has run on some stored corpus with at least one chunk
InitIndex ==
    /\ NoQueryCache
    /\ similarity_threshold = Rat(1, 1) /\ max_cache_size = 1 /\ sc_cache = <<>>
    /\ sc_file = [state |-> "absent", data |-> <<>>] /\ sc_now = 0
    /\ sc_last = ScNoCall("init") /\ sc_lock = 0
    /\ NoHybridSearch
    /\ NoReranker
    /\ qa = [pc |-> "none"] /\ monitor = NewMonitor /\ stores = <<>>
    /\ \E c \in SUBSET CorpusIds \ {{}} :
          /\ collection = c
          /\ hybrid_engine = BuildEngine(c)
    /\ ask_engine = [built |-> FALSE, all_ids |-> {}]
    /\ ix_last = [op |-> "startup_event"]

IxRest == <<qcVars, threads, scVars, hs_last, rr_last, qa, monitor, stores>>

NextIndex ==
    \/ \E d \in {Automotive, Fashion}, ids \in SUBSET CorpusIds :
          UploadDocument(d, ids) /\ UNCHANGED IxRest
    \/ \E d \in {Automotive, Fashion} : DeleteDomain(d) /\ UNCHANGED IxRest
    \/ \E n \in 1..MaxIxN, d \in IxDomains, m \in IxMethods, sem \in IxRankings, bm \in IxRankings :
          SearchDocuments(n, d, m, sem, bm) /\ UNCHANGED IxRest
    \/ \E s \in BOOLEAN, n \in 1..MaxIxN, d \in IxDomains, m \in IxMethods,
          sem \in IxRankings, bm \in IxRankings :
          QueryDocuments(s, n, d, m, sem, bm) /\ UNCHANGED IxRest
    \/ \E n \in 1..MaxIxN, d \in IxDomains, m \in IxMethods, sem \in IxRankings, bm \in IxRankings :
          AskQuestionRetrieve(n, d, m, sem, bm) /\ UNCHANGED IxRest

SpecIndex == InitIndex /\ [][NextIndex]_vars

\* the last step was a 'bm25' or 'hybrid' retrieval
LexicalRetrieval ==
    /\ ix_last.op \in {"search_documents", "query_documents", "ask_question"}
    /\ ix_last.ret.kind = "value"
    /\ ix_last.method \in {Bm25, Hybrid}

\* C32: after the corpus changes (a document upload or a domain deletion
\* completes), every later 'bm25' or 'hybrid' retrieval, the one inside
\* ask_question included, uses a lexical index built from the corpus as it is
\* after the change: no retrieval returns a deleted chunk and the added
\* chunks are in the index.
C32_IndexFresh ==
    LexicalRetrieval =>
        /\ ix_last.all_ids = ix_last.corpus
        /\ IdsOf(ix_last.ret.value) \subseteq ix_last.corpus

----------------------------------------------------------------------------
(* Further claims about ask_question *)

\* the step made a first retrieval attempt
FirstRetrievalStep == RetrievalsOf(qa.trace) = <<>> /\ RetrievalsOf(qa'.trace) # <<>>

\* the step left the retrieval loop with chunks
RetrievedStep == qa.pc = "retrieve" /\ qa'.pc \in {"rerank", "generate"}

\* the step ran the rerank stage
RerankStep ==
    Len(StagesOf(qa'.trace, {"rerank_chunks"})) > Len(StagesOf(qa.trace, {"rerank_chunks"}))

C33_Step ==
    /\ FirstRetrievalStep =>
          RetrievalsOf(qa'.trace)[1].n =
             IF qa.use_reranking THEN 3 * qa.n_results ELSE qa.n_results
    /\ RetrievedStep =>
          (qa'.pc = "rerank" <=> qa.use_reranking /\ Len(qa'.chunks) > qa.n_results)
    /\ RerankStep =>
          /\ qa.pc = "rerank"
          /\ qa'.trace[Len(qa'.trace)] = Stage("rerank_chunks", qa.n_results, "ok")
    /\ (qa.pc = "rerank" /\ qa'.pc # "rerank") => RerankStep

\* C33: the first retrieval attempt of ask_question asks for 3 * n_results
\* chunks when use_reranking is true and for n_results otherwise; the rerank
\* stage runs if and only if use_reranking is true and the retrieval returned
\* more than n_results chunks, and it is asked for top_k = n_results.
C33_OverFetch == [][C33_Step]_vars

\* a request for two chunks with reranking: six are asked for, three come
\* back and the reranker cuts them to two
C33_Witness ==
    /\ qa.pc = "generate" /\ qa.use_reranking /\ qa.n_results = 2
    /\ RetrievalsOf(qa.trace)[1].n = 6
    /\ StagesOf(qa.trace, {"rerank_chunks"}) = <<Stage("rerank_chunks", 2, "ok")>>
    /\ Len(qa.chunks) = 2

----------------------------------------------------------------------------
(* Further claims about QueryCache *)

\* C34: QueryCache.get never returns a value that was stored under a
\* different signature, the signatures being compared on (lower-cased
\* stripped query, domain, method, n); also when a query or a domain contains
\* the character '|', and when one request has no domain and the other has
\* the domain text 'None'.
C34_HitStep ==
    (lastOp'.op = "get" /\ lastOp'.path = "hit") =>
        \E i \in 1..Len(cache) :
           /\ cache[i].data = lastOp'.ret
           /\ cache[i].key = MakeKey(lastOp'.sig)
           /\ SameSig(cache[i].sig, lastOp'.sig)

C34_KeyInjective == [][C34_HitStep]_vars

----------------------------------------------------------------------------
(* QueryCache: the age of an entry that is hit *)

MaxHitTtl == 2
MaxHitClock == 2

\* time passes, up to MaxHitClock
HitTick ==
    /\ now < MaxHitClock
    /\ now' = now + 1
    /\ lastOp' = NoCall("tick")
    /\ UNCHANGED <<max_size, ttl_seconds, cache, hits, misses, evictions,
                   recency, getCalls, threads>>

SigsTtl == {Sig(q, None, Hybrid, 3) : q \in {<<"a">>, <<"b">>}}

\* QueryCache(max_size=2, ttl_seconds=...) with a lifetime of up to MaxHitTtl
InitTtl ==
    /\ \E ttl \in 1..MaxHitTtl : NewQueryCache(2, ttl)
    /\ threads = <<>>
    /\ NoSemanticCache

NextTtl ==
    \/ \E a \in SigsTtl : Get(a) /\ UNCHANGED <<scVars, hs_last, rr_last, qaVars>>
    \/ \E a \in SigsTtl, r \in Results : Set(a, r) /\ UNCHANGED <<scVars, hs_last, rr_last, qaVars>>
    \/ HitTick /\ UNCHANGED <<scVars, hs_last, rr_last, qaVars>>

SpecTtl == InitTtl /\ [][NextTtl]_vars

C36_Step ==
    LET k == MakeKey(lastOp'.sig) IN
    /\ (lastOp'.op = "get" /\ lastOp'.path = "hit") =>
          /\ cache'[Len(cache')].key = k
          /\ EntryOf(cache', k).timestamp = EntryOf(cache, k).timestamp
          /\ EntryOf(cache', k).data = EntryOf(cache, k).data
    /\ \A i \in 1..Len(cache') :
          (\/ ~HasKey(cache, cache'[i].key)
           \/ EntryOf(cache, cache'[i].key).timestamp # cache'[i].timestamp) =>
              lastOp'.op = "set" /\ cache'[i].key = k
    /\ lastOp'.op = "set" => EntryOf(cache', k).timestamp = now
    /\ (lastOp'.op = "get" /\ HasKey(cache, k)) =>
          (lastOp'.path = "hit" <=> now < EntryOf(cache, k).timestamp + ttl_seconds)

\* C36: the lifetime of an entry of the exact cache is measured from its last
\* set: a get hit marks the entry most recently used and leaves its stored
\* timestamp unchanged, so the entry becomes a miss ttl_seconds after its last
\* set however many hits occurred in between; only set gives an entry a fresh
\* timestamp.
C36_TtlFromLastSet == [][C36_Step]_vars

\* an entry set at time 0 with a lifetime of 2 was hit and is a miss at time 2
C36_Witness ==
    /\ ttl_seconds = 2 /\ now = 2
    /\ lastOp.op = "get" /\ lastOp.path = "expired"
    /\ hits >= 1 /\ evictions = 0

----------------------------------------------------------------------------
(* ask_question: requests that follow a failed generation *)

FailingGenOutcomes ==
    {GenRaises("Timeout"), GenRaises("ConnectionError"), GenStatus(500), GenText("A1")}

FailingDomains == {None, Automotive}

\* a first request without reranking, for one chunk
InitQAFailing ==
    /\ \E ttl \in QaTtls : NewQueryCache(1, ttl)
    /\ QaRest
    /\ \E d \in FailingDomains, c \in BOOLEAN :
          qa = QaCall(Question, 1, d, Hybrid, FALSE, c, 1)

NextQAFailing ==
    \/ QaEnter /\ UNCHANGED <<scVars, hs_last, rr_last, ixVars>>
    \/ QaProbe /\ UNCHANGED <<scVars, hs_last, rr_last, ixVars>>
    \/ QaRetrieve(Retrieved(1), 0) /\ UNCHANGED <<scVars, hs_last, rr_last, ixVars>>
    \/ \E g \in FailingGenOutcomes :
          QaGenerate(g, 0) /\ UNCHANGED <<scVars, hs_last, rr_last, ixVars>>
    \/ QaFormat /\ UNCHANGED <<scVars, hs_last, rr_last, ixVars>>
    \/ QaStore /\ UNCHANGED <<scVars, hs_last, rr_last, ixVars>>
    \/ QaMetrics /\ UNCHANGED <<scVars, hs_last, rr_last, ixVars>>
    \/ QaTick /\ UNCHANGED <<scVars, hs_last, rr_last, ixVars>>
    \/ \E d \in FailingDomains, c \in BOOLEAN :
          QaNextRequest(Question, 1, d, Hybrid, FALSE, c)
             /\ UNCHANGED <<scVars, hs_last, rr_last, ixVars>>

SpecQAFailing == InitQAFailing /\ [][NextQAFailing]_vars

\* the step in which ask_question passes its cache store
StoreStep == qa.pc = "store" /\ qa'.pc = "metrics"

C37_Step ==
    /\ (StoreStep /\ qa.use_cache /\ qa.answer \in DegradedMessages) =>
          /\ qa.result.answer = qa.answer
          /\ \E i \in 1..Len(cache') :
                /\ cache'[i].sig = RequestSig
                /\ cache'[i].data = qa.result
                /\ cache'[i].timestamp = now
    /\ (ProbeStep /\ qa.use_cache) =>
          LET last == LastStoreOf(RequestSig) IN
          (/\ last # 0
           /\ stores[last].stored
           /\ now - stores[last].time < ttl_seconds
           /\ stores[last].result.answer \in DegradedMessages) =>
              /\ qa'.pc = "done"
              /\ qa'.ret = Returned(stores[last].result)
              /\ StagesOf(qa'.trace, {"generate_answer_ollama"}) = <<>>

\* C37: when the generation fails and ask_question returns a degraded-service
\* answer with use_cache enabled, that result is stored in the exact cache
\* like any other, so an identical request before the expiry and the eviction
\* of the entry gets the degraded answer from the cache and the generation
\* backend is not contacted again.
C37_DegradedCached == [][C37_Step]_vars

\* the second request gets the time-out message of the first from the cache
C37_Witness ==
    /\ qa.pc = "done" /\ qa.requests = 2 /\ qa.use_cache
    /\ Len(qa.trace) = 2 /\ qa.trace[1].result = "hit"
    /\ qa.ret.kind = "value" /\ qa.ret.value.answer = "LLM connection timed out"
    /\ Len(stores) = 1 /\ monitor.queries_count = 2

----------------------------------------------------------------------------
(* ask_question: requests that differ in use_reranking only *)

FlagRetrievals == {Retrieved(1), Retrieved(2)}

FlagGenOutcomes == {GenText("A1"), GenText("A2")}

\* a first request for one chunk, with or without reranking
InitQAFlag ==
    /\ \E ttl \in QaTtls : NewQueryCache(1, ttl)
    /\ QaRest
    /\ \E r \in BOOLEAN, c \in BOOLEAN :
          qa = QaCall(Question, 1, None, Hybrid, r, c, 1)

NextQAFlag ==
    \/ QaEnter /\ UNCHANGED <<scVars, hs_last, rr_last, ixVars>>
    \/ QaProbe /\ UNCHANGED <<scVars, hs_last, rr_last, ixVars>>
    \/ \E o \in FlagRetrievals :
          QaRetrieve(o, 0) /\ UNCHANGED <<scVars, hs_last, rr_last, ixVars>>
    \/ QaRerank(PostText(<<"2">>), 0) /\ UNCHANGED <<scVars, hs_last, rr_last, ixVars>>
    \/ \E g \in FlagGenOutcomes :
          QaGenerate(g, 0) /\ UNCHANGED <<scVars, hs_last, rr_last, ixVars>>
    \/ QaFormat /\ UNCHANGED <<scVars, hs_last, rr_last, ixVars>>
    \/ QaStore /\ UNCHANGED <<scVars, hs_last, rr_last, ixVars>>
    \/ QaMetrics /\ UNCHANGED <<scVars, hs_last, rr_last, ixVars>>
    \/ QaTick /\ UNCHANGED <<scVars, hs_last, rr_last, ixVars>>
    \/ \E r \in BOOLEAN, c \in BOOLEAN :
          QaNextRequest(Question, 1, None, Hybrid, r, c)
             /\ UNCHANGED <<scVars, hs_last, rr_last, ixVars>>

SpecQAFlag == InitQAFlag /\ [][NextQAFlag]_vars

\* the last store made by a request with these four arguments, if there is one
LastRequestOf(sig) ==
    LET idx == {i \in 1..Len(stores) : stores[i].request = sig} IN
    IF idx = {} THEN 0 ELSE CHOOSE i \in idx : \A j \in idx : j <= i

C38_Step ==
    (ProbeStep /\ qa.use_cache) =>
        LET last == LastRequestOf(RequestSig) IN
        (/\ last # 0
         /\ stores[last].stored
         /\ now - stores[last].time < ttl_seconds
         /\ stores[last].use_reranking # qa.use_reranking) =>
            /\ qa'.pc = "done"
            /\ qa'.ret = Returned(stores[last].result)
            /\ StagesOf(qa'.trace, RetrievalStages \cup {"rerank_chunks"}) = <<>>

\* C38: the use_reranking flag is not part of the exact-cache signature: a
\* result computed by ask_question with reranking enabled is returned from
\* the cache to a later request with the same (question, domain,
\* search_method, n_results) and reranking disabled, and the reverse, until
\* the entry expires or is evicted.
C38_FlagNotInKey == [][C38_Step]_vars

\* a request without reranking gets the reranked chunk of the first request
C38_Witness ==
    /\ qa.pc = "done" /\ qa.requests = 2 /\ qa.use_cache /\ ~qa.use_reranking
    /\ Len(qa.trace) = 2 /\ qa.trace[1].result = "hit"
    /\ Len(stores) = 1 /\ stores[1].use_reranking
    /\ qa.ret = Returned(stores[1].result)
    /\ qa.ret.value.retrieved_chunks = <<<<"chunk", "2">>>>

\* a request with reranking gets the chunk that was stored without reranking
C38_WitnessReverse ==
    /\ qa.pc = "done" /\ qa.requests = 2 /\ qa.use_cache /\ qa.use_reranking
    /\ Len(qa.trace) = 2 /\ qa.trace[1].result = "hit"
    /\ Len(stores) = 1 /\ ~stores[1].use_reranking
    /\ qa.ret = Returned(stores[1].result)

----------------------------------------------------------------------------
(* ask_question: the size of a computed result *)

SizeGenOutcomes == {GenRaises("Timeout"), GenText("A1")}

\* one request that does not use the cache, with every answer of the reranker
InitQASize ==
    /\ NewQueryCache(1, 1)
    /\ QaRest
    /\ \E n \in 1..MaxQaN, d \in QaDomains, m \in QaMethods, r \in BOOLEAN :
          qa = QaCall(Question, n, d, m, r, FALSE, 1)

NextQASize ==
    \/ QaEnter /\ UNCHANGED <<scVars, hs_last, rr_last, ixVars>>
    \/ QaProbe /\ UNCHANGED <<scVars, hs_last, rr_last, ixVars>>
    \/ \E o \in RetrievalOutcomes :
          QaRetrieve(o, 0) /\ UNCHANGED <<scVars, hs_last, rr_last, ixVars>>
    \/ \E r \in Responses :
          QaRerank(r, 0) /\ UNCHANGED <<scVars, hs_last, rr_last, ixVars>>
    \/ \E g \in SizeGenOutcomes :
          QaGenerate(g, 0) /\ UNCHANGED <<scVars, hs_last, rr_last, ixVars>>
    \/ QaFormat /\ UNCHANGED <<scVars, hs_last, rr_last, ixVars>>
    \/ QaStore /\ UNCHANGED <<scVars, hs_last, rr_last, ixVars>>
    \/ QaMetrics /\ UNCHANGED <<scVars, hs_last, rr_last, ixVars>>

SpecQASize == InitQASize /\ [][NextQASize]_vars

\* the request has computed its result
Computed == StagesOf(qa.trace, {"format"}) # <<>>

\* C39: for n_results >= 1 every result that ask_question computes (not one
\* served from the cache) has at most n_results retrieved chunks, whatever
\* the search method, the reranking flag, the reranker's response and the
\* fallback attempt that succeeded, and its sources list has exactly one
\* entry for every retrieved chunk, in the same order.
C39_ResultSize ==
    Computed =>
        /\ Len(qa.result.retrieved_chunks) <= qa.n_results
        /\ Len(qa.result.retrieved_chunks) >= 1
        /\ Len(qa.result.sources) = Len(qa.result.retrieved_chunks)
        /\ \A i \in 1..Len(qa.result.sources) :
              /\ qa.result.sources[i].chunk_preview = qa.result.retrieved_chunks[i]
              /\ qa.result.sources[i].source = <<"doc", qa.result.retrieved_chunks[i][2]>>
        /\ qa.pc = "done" => qa.ret = Returned(qa.result)

\* a request for two chunks with a domain: six were asked for and failed,
\* two were asked for and came back, nothing was reranked
C39_Witness ==
    /\ qa.pc = "done" /\ Computed /\ qa.use_reranking /\ qa.n_results = 2
    /\ Len(RetrievalsOf(qa.trace)) = 2
    /\ StagesOf(qa.trace, {"rerank_chunks"}) = <<>>
    /\ Len(qa.result.retrieved_chunks) = 2 /\ Len(qa.result.sources) = 2

\* a request for one chunk: three came back and the reranker, answering
\* '3,1', cut them to the third
C39_WitnessReranked ==
    /\ qa.pc = "done" /\ Computed /\ qa.use_reranking /\ qa.n_results = 1
    /\ StagesOf(qa.trace, {"rerank_chunks"}) # <<>>
    /\ qa.result.retrieved_chunks = <<<<"chunk", "3">>>>
    /\ qa.result.sources[1].source = <<"doc", "3">>

----------------------------------------------------------------------------
(* Further claims about SemanticCache *)

\* C40: SemanticCache.set never overwrites a live entry: every set that
\* returns adds a new entry under an id different from the ids of all the
\* entries already stored, so that k sets on an empty cache with
\* k <= max_cache_size leave exactly k entries, however close in time the
\* sets are.
C40_SetStep ==
    sc_last'.op = "set" =>
        /\ \A i \in 1..Len(sc_cache) :
              (\A j \in 1..Len(sc_last'.evicted) :
                  sc_cache[i].cache_id # sc_last'.evicted[j]) =>
                 sc_cache[i].cache_id # sc_last'.match
        /\ Len(sc_cache) < max_cache_size => Len(sc_cache') = Len(sc_cache) + 1

C40_NoOverwrite == [][C40_SetStep]_vars

=============================================================================
